---- MODULE Spec2Model ----
(***************************************************************************)
(* Incremental log scanner of bot/parsers/unified_log_parser.py            *)
(* (UnifiedLogParser) together with the part of main.py that constructs    *)
(* and schedules it.                                                       *)
(*                                                                         *)
(* A log text is a sequence of words.  The game server writes lines of the *)
(* shape  [timestamp] event NL ; a word stands for the stretch of          *)
(* characters one of the parser's regular expressions matches as a whole.  *)
(* A text read while the last line is still being written ends in a        *)
(* partial line (the timestamp without its event).                         *)
(***************************************************************************)
EXTENDS Integers, Sequences, FiniteSets, TLC

VARIABLES
    log,              \* server id -> text of Deadside.log as written so far
    vocab,            \* the words the game server writes in this run
    file_states,      \* self.file_states: server key -> cursor record
    persisted,        \* the parser_state document of the database
    player_lifecycle, \* self.player_lifecycle: player id -> record (one guild)
    player_sessions,  \* self.player_sessions: player id -> record (one guild)
    voice,            \* counts of the last update_voice_channel call
    ctx,              \* task -> frame of its parse_server_logs/parse_log_content call
    loadPending,      \* the _load_persistent_state task of __init__ has not run yet
    restarts,         \* number of process restarts so far
    covered,          \* history: server -> per line index, the contents processed
    lastCount,        \* history: server -> line count the latest completed scan left
    disturbed,        \* history: a scan was cancelled, a write of the cursor store failed,
                      \* or the cursor was reset, lost in a restart or loaded over
    credentials,      \* server id -> the server's config has host, username and password
    sftp_connections, \* self.sftp_connections: server id -> "open" or "closed"
    local_files,      \* server id -> the local Deadside.log: [exists, text]
    transfer,         \* task -> frame of its get_log_content/get_sftp_connection call
    player_name_cache, \* self.player_name_cache: player id -> name (one guild)
    pvp_data,         \* the pvp_data collection, latest last_updated first
    players,          \* the players collection: player id -> primary_character
    kill_events,      \* the kill_events collection of the last day, latest first
    resolved,         \* what the latest resolve_player_name call returned
    delayed,          \* player ids with a _delayed_name_resolution task pending
    run,              \* task -> frame of its run_log_parser call
    bot,              \* the bot object: _setup_complete, extensions, scheduler, parsers
    ready,            \* on_ready event -> frame of its handler
    sync,             \* frame of the register_commands_safely call
    disk,             \* command_sync_cooldown.txt and command_hash.txt
    clock             \* time.time(), in units of 900 s

\* the state of the scanner
scanVars == <<log, vocab, file_states, persisted, player_lifecycle, player_sessions,
              voice, ctx, loadPending, restarts, covered, lastCount, disturbed>>

\* the state of the remote transport
transportVars == <<credentials, sftp_connections, local_files, transfer>>

\* the state of the name resolver and of the collections it reads
resolverVars == <<player_name_cache, pvp_data, players, kill_events, resolved, delayed>>

\* the state of the cycle of run_log_parser
runVars == <<run>>

\* the state of the bot's setup and of its command sync
botVars == <<bot, ready, sync, disk, clock>>

\* what the fetch of a log leaves alone besides the scanner
restVars == <<resolverVars, runVars, botVars>>

\* what the scan of a text that was fetched already leaves alone
extVars == <<transportVars, restVars>>

vars == <<scanVars, extVars>>

-----------------------------------------------------------------------------
(* Bounds *)

MaxLines == 2

MaxRestarts == 1

-----------------------------------------------------------------------------
(* Words and lines *)

NoTs == 0

Word(k, id, arg, t) == [k |-> k, id |-> id, arg |-> arg, t |-> t]

NL == Word("nl", "-", <<>>, NoTs)

TsWord(t) == Word("ts", "-", <<>>, t)

QueueWord(p, raw) == Word("queue", p, raw, NoTs)

RegWord(p) == Word("reg", p, <<>>, NoTs)

DiscWord(p) == Word("disc", p, <<>>, NoTs)

MissionWord(m, st) == Word("mission", m, <<st>>, NoTs)

\* vehicle_spawn / vehicle_delete: k is the pattern, id the vehicle type
VehicleWord(k, vehicle_type) == Word(k, vehicle_type, <<>>, NoTs)

EventKinds == {"queue", "reg", "disc", "mission", "vehicle_spawn", "vehicle_delete"}

\* One player going through queue, registration and disconnect.
VocabIdentity == {QueueWord("X", <<"F", "o", "o">>), RegWord("X"), DiscWord("X")}

\* Lines with and without a timestamp: a text can end inside a line.
VocabStamped == {TsWord(1), RegWord("X")}

\* A player with an encoded name, and a mission line.
VocabMixed == {QueueWord("Y", <<"A", "+", "B">>), RegWord("Y"),
               MissionWord("GA_Military_02_Mis1", "READY")}

Vocabs == {VocabIdentity, VocabStamped, VocabMixed}

\* One player whose lines carry one of two timestamps, or none: lines can be
\* written out of chronological order.
VocabOrdered == {TsWord(1), TsWord(2), RegWord("X"), DiscWord("X")}

\* One player seen on every server of the guild.
VocabShared == {RegWord("X"), DiscWord("X")}

\* dict[key] = value
Put(f, k, v) == (k :> v) @@ f

\* str.splitlines(): cut at every newline; a trailing newline opens no empty line.
RECURSIVE SplitLines(_)
SplitLines(text) ==
    IF text = <<>> THEN <<>>
    ELSE LET nls == {i \in 1..Len(text) : text[i] = NL}
         IN  IF nls = {} THEN <<text>>
             ELSE LET i == CHOOSE j \in nls : \A k \in nls : j <= k
                  IN  <<SubSeq(text, 1, i - 1)>> \o SplitLines(SubSeq(text, i + 1, Len(text)))

\* pattern.search(line): the first word of that kind in the line, if any.
Matches(line, k) == {i \in 1..Len(line) : line[i].k = k}

Search(line, k) == line[CHOOSE i \in Matches(line, k) : \A j \in Matches(line, k) : i <= j]

-----------------------------------------------------------------------------
(* Names *)

\* urllib.parse.unquote on the characters the model's names are made of: a
\* percent escape is one character of the raw name and decodes to its character.
Unquote(raw) == [i \in 1..Len(raw) |-> IF raw[i] = "%20" THEN " " ELSE raw[i]]

\* str.replace('+', ' ')
PlusToSpace(name) == [i \in 1..Len(name) |-> IF name[i] = "+" THEN " " ELSE name[i]]

\* str.strip()
RECURSIVE Strip(_)
Strip(name) ==
    IF name = <<>> THEN <<>>
    ELSE IF Head(name) = " " THEN Strip(Tail(name))
    ELSE IF name[Len(name)] = " " THEN Strip(SubSeq(name, 1, Len(name) - 1))
    ELSE name

\* decoded_name / clean_name / final_name of the queue branch
FinalName(raw) ==
    LET clean_name == Strip(PlusToSpace(Unquote(raw)))
    IN  IF clean_name # <<>> THEN clean_name ELSE Strip(raw)

\* f"Player{player_id[:8].upper()}"
Placeholder(player_id) == <<"Player", player_id>>

\* the platformid group of player_queue_join follows a lazy .*? and is optional,
\* so it never captures: groups[2] is None and platform is "Unknown"
QueuePlatform(w) == "Unknown"

-----------------------------------------------------------------------------
(* First pass of parse_log_content: lifecycle records and player events *)

EmptyMap == [x \in {} |-> x]

PlayerEvent(type, player_id, timestamp) ==
    [type |-> type, player_id |-> player_id, timestamp |-> timestamp]

\* timestamp_match.group(1) if timestamp_match else None
LineTimestamp(line) == IF Matches(line, "ts") = {} THEN NoTs ELSE Search(line, "ts").t

\* queue branch: the record is stored whatever was there before
QueueJoin(lc, w) ==
    Put(lc, w.id, [name |-> FinalName(w.arg), platform |-> QueuePlatform(w),
                   state |-> "queued"])

\* a registered branch that ignores a player it has no record of
RegisteredMutant(lc, player_id) ==
    IF player_id \in DOMAIN lc
    THEN [lc EXCEPT ![player_id].state = "joined"]
    ELSE lc

\* registered branch
Registered(lc, player_id) ==
    IF player_id \in DOMAIN lc
    THEN [lc EXCEPT ![player_id].state = "joined"]
    ELSE Put(lc, player_id, [name |-> Placeholder(player_id), platform |-> "Unknown",
                             state |-> "joined"])

\* a guard that lets the disconnect of any known player through
WasJoinedMutant(lc, player_id) == player_id \in DOMAIN lc

\* guard of the disconnect branch
WasJoined(lc, player_id) == player_id \in DOMAIN lc /\ lc[player_id].state = "joined"

\* disconnect branch
Disconnected(lc, player_id) == [lc EXCEPT ![player_id].state = "disconnected"]

\* body of the first loop for one line; acc = [lc, events]
CollectLine(acc, line) ==
    LET ts == LineTimestamp(line)
        a1 == IF Matches(line, "queue") # {}
              THEN [acc EXCEPT !.lc = QueueJoin(acc.lc, Search(line, "queue"))]
              ELSE acc
        a2 == IF Matches(line, "reg") # {}
              THEN [lc |-> Registered(a1.lc, Search(line, "reg").id),
                    events |-> Append(a1.events,
                                      PlayerEvent("join", Search(line, "reg").id, ts))]
              ELSE a1
        a3 == IF Matches(line, "disc") # {} /\ WasJoined(a2.lc, Search(line, "disc").id)
              THEN [lc |-> Disconnected(a2.lc, Search(line, "disc").id),
                    events |-> Append(a2.events,
                                      PlayerEvent("disconnect", Search(line, "disc").id, ts))]
              ELSE a2
    IN  a3

\* for line in lines_to_process
RECURSIVE CollectEvents(_, _)
CollectEvents(acc, lines) ==
    IF lines = <<>> THEN acc
    ELSE CollectEvents(CollectLine(acc, Head(lines)), Tail(lines))

\* list.sort(key=timestamp or ''): stable, events without a timestamp first
RECURSIVE InsertSorted(_, _)
InsertSorted(sorted, e) ==
    IF sorted = <<>> THEN <<e>>
    ELSE IF sorted[Len(sorted)].timestamp <= e.timestamp THEN Append(sorted, e)
    ELSE Append(InsertSorted(SubSeq(sorted, 1, Len(sorted) - 1), e), sorted[Len(sorted)])

RECURSIVE SortEvents(_)
SortEvents(events) ==
    IF events = <<>> THEN <<>>
    ELSE InsertSorted(SortEvents(SubSeq(events, 1, Len(events) - 1)), events[Len(events)])

-----------------------------------------------------------------------------
(* Embeds *)

\* keys of EmbedFactory.COLORS
COLORS == {"success", "warning", "error", "info", "neutral", "emerald", "mission",
           "connection", "disconnection", "airdrop", "trader", "helicrash"}

Embed(title, name, platform) == [title |-> title, name |-> name, platform |-> platform]

\* EmbedFactory.build('connection', data): the embed is created with
\* COLORS['primary']; with that key missing the lookup raises KeyError, the handler
\* of build looks the same key up again, and the error leaves build.
\* Result: [raised, embed].
BuildConnection(title, player_name, platform) ==
    [raised |-> "primary" \notin COLORS, embed |-> Embed(title, player_name, platform)]

\* EmbedFactory.get_mission_level: keyword of the mission id -> tier
MissionLevel(mission_id) ==
    CASE mission_id = "GA_Military_02_Mis1" -> 5
      [] mission_id = "GA_Airport_mis_01_SFPSACMission" -> 4
      [] mission_id = "GA_Ind_01_m1" -> 3
      [] mission_id = "GA_Sawmill_01_Mis1" -> 2
      [] OTHER -> 1

\* lowest tier a READY mission is announced for
MinMissionLevel == 3

\* UnifiedLogParser.create_mission_embed, state READY
MissionEmbed(mission_id) == Embed("Mission Available", <<mission_id>>, "-")

-----------------------------------------------------------------------------
(* Event loop of parse_log_content: sessions and connection embeds *)

\* st = [sess, embeds, voice]; one iteration of `for event in player_events`.
\* An error raised by the embed builder is caught by the loop: the rest of the
\* iteration (embeds.append) is skipped, what was done before stays.
JoinEvent(st, e, lc, cold_start) ==
    LET player_id == e.player_id
        player_name == IF player_id \in DOMAIN lc THEN lc[player_id].name
                       ELSE Placeholder(player_id)
        platform == IF player_id \in DOMAIN lc THEN lc[player_id].platform ELSE "Unknown"
        sess == Put(st.sess, player_id, [player_name |-> player_name,
                                         platform |-> platform, status |-> "online"])
        built == BuildConnection("Reinforcements Arrive", player_name, platform)
    IN  [sess |-> sess,
         voice |-> TRUE,
         embeds |-> IF ~cold_start /\ ~built.raised
                    THEN Append(st.embeds, built.embed) ELSE st.embeds]

DisconnectEvent(st, e, lc, cold_start) ==
    LET player_id == e.player_id
        player_name == IF player_id \in DOMAIN lc /\ lc[player_id].name # <<>>
                       THEN lc[player_id].name
                       ELSE IF player_id \in DOMAIN st.sess
                            THEN st.sess[player_id].player_name
                            ELSE Placeholder(player_id)
        platform == IF player_id \in DOMAIN lc THEN lc[player_id].platform
                    ELSE IF player_id \in DOMAIN st.sess THEN st.sess[player_id].platform
                    ELSE "Unknown"
        sess == IF player_id \in DOMAIN st.sess
                THEN [st.sess EXCEPT ![player_id].status = "offline"]
                ELSE st.sess
        built == BuildConnection("Extraction Confirmed", player_name, platform)
    IN  [sess |-> sess,
         voice |-> TRUE,
         embeds |-> IF ~cold_start /\ ~built.raised
                    THEN Append(st.embeds, built.embed) ELSE st.embeds]

\* an event loop whose handler is outside the loop: the first error ends it
RECURSIVE ProcessEventsMutant(_, _, _, _)
ProcessEventsMutant(st, events, lc, cold_start) ==
    IF events = <<>> THEN st
    ELSE LET e == Head(events)
             next == IF e.type = "join" THEN JoinEvent(st, e, lc, cold_start)
                     ELSE DisconnectEvent(st, e, lc, cold_start)
         IN  IF ~cold_start /\ "primary" \notin COLORS THEN next
             ELSE ProcessEventsMutant(next, Tail(events), lc, cold_start)

RECURSIVE ProcessEvents(_, _, _, _)
ProcessEvents(st, events, lc, cold_start) ==
    IF events = <<>> THEN st
    ELSE LET e == Head(events)
             next == IF e.type = "join" THEN JoinEvent(st, e, lc, cold_start)
                     ELSE DisconnectEvent(st, e, lc, cold_start)
         IN  ProcessEvents(next, Tail(events), lc, cold_start)

-----------------------------------------------------------------------------
(* Second pass of parse_log_content: mission lines *)

\* a second loop that announces missions during a cold start as well
WorldLineMutant(embeds, line, cold_start) ==
    IF Matches(line, "mission") = {} THEN embeds
    ELSE LET m == Search(line, "mission")
         IN  IF m.arg = <<"READY">> /\ MissionLevel(m.id) >= MinMissionLevel
             THEN Append(embeds, MissionEmbed(m.id))
             ELSE embeds

\* the mission branch of the second loop: embeds the line adds
MissionLine(embeds, line, cold_start) ==
    IF Matches(line, "mission") = {} THEN embeds
    ELSE LET m == Search(line, "mission")
         IN  IF ~cold_start /\ m.arg = <<"READY">> /\ MissionLevel(m.id) >= MinMissionLevel
             THEN Append(embeds, MissionEmbed(m.id))
             ELSE embeds

\* a create_vehicle_embed that builds an embed
CreateVehicleEmbedMutant(action, vehicle_type) ==
    <<Embed("Vehicle", <<action, vehicle_type>>, "-")>>

\* create_vehicle_embed returns None: the empty sequence here
CreateVehicleEmbed(action, vehicle_type) == <<>>

\* a vehicle branch of the second loop: `if embed: embeds.append(embed)`
VehicleLine(embeds, line, cold_start, k, action) ==
    IF Matches(line, k) = {} \/ cold_start THEN embeds
    ELSE embeds \o CreateVehicleEmbed(action, Search(line, k).id)

\* one iteration of the second loop: embeds the line adds
WorldLine(embeds, line, cold_start) ==
    VehicleLine(VehicleLine(MissionLine(embeds, line, cold_start),
                            line, cold_start, "vehicle_spawn", "spawn"),
                line, cold_start, "vehicle_delete", "delete")

RECURSIVE WorldEvents(_, _, _)
WorldEvents(embeds, lines, cold_start) ==
    IF lines = <<>> THEN embeds
    ELSE WorldEvents(WorldLine(embeds, Head(lines), cold_start), Tail(lines), cold_start)

-----------------------------------------------------------------------------
(* Occupancy *)

\* a count that takes every session record for an online player
ActivePlayersMutant(sess) == Cardinality(DOMAIN sess)

\* counting loops of update_voice_channel
ActivePlayers(sess) == Cardinality({p \in DOMAIN sess : sess[p].status = "online"})

QueuedPlayers(lc) == Cardinality({p \in DOMAIN lc : lc[p].state = "queued"})

VoiceCounts(sess, lc) == [active |-> ActivePlayers(sess), queued |-> QueuedPlayers(lc)]

-----------------------------------------------------------------------------
(* Cursor *)

\* file_state.get('line_count', 0)
LineCount(fs, server_key) ==
    IF server_key \in DOMAIN fs THEN fs[server_key].line_count ELSE 0

\* file_state.get('cold_start_complete', False)
ColdStartComplete(fs, server_key) ==
    IF server_key \in DOMAIN fs THEN fs[server_key].cold_start_complete ELSE FALSE

\* `if cold_start or last_processed == 0`
ProcessesAll(cold_start, last_processed) == cold_start \/ last_processed = 0

\* a comparison that also takes an unchanged text for new
HasNewLinesMutant(last_processed, lines) == last_processed <= Len(lines)

\* `if last_processed < len(lines)`
HasNewLines(last_processed, lines) == last_processed < Len(lines)

\* a scan after a rotation that starts again at the first line
SliceStartMutant(cold_start, last_processed) == 1

\* first line index (1-based) of lines_to_process
SliceStart(cold_start, last_processed) ==
    IF ProcessesAll(cold_start, last_processed) THEN 1 ELSE last_processed + 1

\* lines_to_process
LinesToProcess(lines, cold_start, last_processed) ==
    SubSeq(lines, SliceStart(cold_start, last_processed), Len(lines))

\* the record stored under server_key ("Update state immediately")
NewFileState(lines) == [line_count |-> Len(lines), cold_start_complete |-> TRUE]

-----------------------------------------------------------------------------
(* Frames *)

IdleFrame ==
    [pc |-> "idle", server |-> "-", via |-> "-", cold_start |-> FALSE, lines |-> <<>>,
     last_processed |-> 0, state_doc |-> EmptyMap, embeds |-> <<>>, outcome |-> "none",
     voice_updates |-> 0]

\* the frame left behind by a call that has returned: its locals are gone
Returned(f, outcome) ==
    [f EXCEPT !.pc = "idle", !.outcome = outcome, !.lines = <<>>, !.last_processed = 0,
              !.state_doc = EmptyMap]

Servers == DOMAIN log

Tasks == DOMAIN ctx

NoDocument == [exists |-> FALSE, fs |-> EmptyMap]

\* no call of get_log_content in progress
IdleTransfer ==
    [pc |-> "idle", server |-> "-", attempt |-> 0, tries |-> 0, waits |-> <<>>,
     elapsed |-> 0, conn |-> "unset", content |-> "unset"]

NoFile == [exists |-> FALSE, text |-> <<>>]

\* a transport that is not looked at: the text of the log reaches the scan as it is
TransportUnused(servers, tasks) ==
    /\ credentials = [s \in servers |-> TRUE]
    /\ sftp_connections = EmptyMap
    /\ local_files = [s \in servers |-> NoFile]
    /\ transfer = [t \in tasks |-> IdleTransfer]

\* the scanner after construction, for the configured servers and the tasks that
\* run run_log_parser
ScanStart(servers, tasks, vocabs) ==
    /\ log = [s \in servers |-> <<>>]
    /\ vocab \in vocabs
    /\ file_states = EmptyMap
    /\ persisted = NoDocument
    /\ player_lifecycle = EmptyMap
    /\ player_sessions = EmptyMap
    /\ voice = [active |-> 0, queued |-> 0]
    /\ ctx = [t \in tasks |-> IdleFrame]
    /\ loadPending = TRUE
    /\ restarts = 0
    /\ covered = [s \in servers |-> [i \in 1..MaxLines |-> <<>>]]
    /\ lastCount = [s \in servers |-> 0]
    /\ disturbed = FALSE

\* resolve_player_name has returned nothing yet
NoName ==
    [player_id |-> "-", name |-> <<>>, source |-> "none", faulty |-> FALSE,
     backed |-> FALSE]

\* no name was resolved and the collections hold nothing
ResolverUnused ==
    /\ player_name_cache = EmptyMap
    /\ pvp_data = <<>>
    /\ players = EmptyMap
    /\ kill_events = <<>>
    /\ resolved = NoName
    /\ delayed = {}

\* no call of run_log_parser in progress
IdleRun == [pc |-> "idle", todo |-> <<>>, visited |-> <<>>, raised |-> FALSE]

\* the scans are started one by one, outside a cycle of run_log_parser
RunUnused(tasks) == run = [t \in tasks |-> IdleRun]

\* EmeraldKillfeedBot.__init__: no extension loaded, no database manager and no
\* parser constructed, the scheduler constructed and not started; the counters
\* are history: how often each step of the setup was performed
NewBot ==
    [setup_complete |-> FALSE, extensions |-> {}, unified_log_parser |-> FALSE,
     scheduler_running |-> FALSE, jobs |-> {}, on_ready |-> 0, load_cogs |-> 0,
     setup_database |-> 0, parsers |-> 0, scheduler_starts |-> 0, add_job |-> 0]

\* no on_ready handler in progress
IdleReady == [pc |-> "idle", failed_cogs |-> {}]

\* the on_ready events of one process: the first, and one after a reconnect
Handlers == {"first", "second"}

\* no register_commands_safely call in progress
IdleSync ==
    [pc |-> "idle", fingerprint |-> "-", guild |-> 0, success_count |-> 0,
     calls |-> 0, limited |-> FALSE, outcome |-> "-"]

\* neither command_sync_cooldown.txt nor command_hash.txt exists
NoFiles == [cooldown |-> 0, hash |-> "-"]

\* on_ready has not fired and the commands were never synchronised
BotUnused ==
    /\ bot = NewBot
    /\ ready = [h \in Handlers |-> IdleReady]
    /\ sync = IdleSync
    /\ disk = NoFiles
    /\ clock = 0

\* the state after construction when the text of the log is taken as fetched
Start(servers, tasks, vocabs) ==
    /\ ScanStart(servers, tasks, vocabs)
    /\ TransportUnused(servers, tasks)
    /\ ResolverUnused
    /\ RunUnused(tasks)
    /\ BotUnused

\* one guild with one server, scanned by one task at a time
Init == Start({"s1"}, {1}, Vocabs)

\* the same, with a game server that may stamp its lines
InitOrdered == Start({"s1"}, {1}, {VocabOrdered, VocabIdentity})

\* one guild with two servers
InitServers == Start({"s1", "s2"}, {1}, {VocabShared})

\* the initial run of on_ready and the interval job of the scheduler
InitTasks == Start({"s1"}, {"initial", "scheduled"}, {VocabMixed})

-----------------------------------------------------------------------------
(* The game server writes the log *)

LastWord(text) == IF text = <<>> THEN NL ELSE text[Len(text)]

\* lines are written as [timestamp] event NL
MayWrite(text, w) ==
    CASE LastWord(text) = NL ->
             /\ w # NL
             /\ Len(SplitLines(text)) < MaxLines
      [] LastWord(text).k = "ts" -> w.k \in EventKinds
      [] OTHER -> w = NL

WriteLog(s, w) ==
    /\ MayWrite(log[s], w)
    /\ log' = [log EXCEPT ![s] = Append(@, w)]
    /\ UNCHANGED extVars
    /\ UNCHANGED <<vocab, file_states, persisted, player_lifecycle, player_sessions,
                   voice, ctx, loadPending, restarts, covered, lastCount, disturbed>>

-----------------------------------------------------------------------------
(* parse_server_logs / parse_log_content, one action per stretch between awaits *)

\* From the content returned by get_log_content to the `await replace_one(...)` of
\* _save_persistent_state: state_doc is built from self.file_states before the await.
BeginWith(t, s, via, cold_start, content) ==
    LET lines == SplitLines(content)
        last_processed == LineCount(file_states, s)
        frame == [IdleFrame EXCEPT !.server = s, !.via = via, !.cold_start = cold_start,
                                   !.lines = lines, !.last_processed = last_processed]
    IN  /\ ctx[t].pc = "idle"
        /\ IF content = <<>>
           THEN /\ ctx' = [ctx EXCEPT ![t] = Returned(frame, "nocontent")]
                /\ UNCHANGED file_states
           ELSE IF ProcessesAll(cold_start, last_processed)
                   \/ HasNewLines(last_processed, lines)
           THEN /\ file_states' = Put(file_states, s, NewFileState(lines))
                /\ ctx' = [ctx EXCEPT ![t] = [frame EXCEPT !.pc = "save",
                                                           !.state_doc = file_states',
                                                           !.outcome = "running"]]
           ELSE /\ ctx' = [ctx EXCEPT ![t] = Returned(frame, "noop")]
                /\ UNCHANGED file_states
        /\ UNCHANGED <<log, vocab, persisted, player_lifecycle, player_sessions, voice,
                       loadPending, restarts, covered, lastCount, disturbed>>

\* the same with the text of the log as the content get_log_content returned
Begin(t, s, via, cold_start) ==
    /\ BeginWith(t, s, via, cold_start, log[s])
    /\ UNCHANGED extVars

\* parse_server_logs: is_cold_start = not cold_start_complete
ParseServerLogs(t, s) ==
    Begin(t, s, "server_logs", ~ColdStartComplete(file_states, s))

\* parse_log_content called with its default cold_start=False
ParseLogContent(t, s) == Begin(t, s, "direct", FALSE)

\* _save_persistent_state: replace_one succeeds
SaveState(t) ==
    /\ ctx[t].pc = "save"
    /\ persisted' = [exists |-> TRUE, fs |-> ctx[t].state_doc]
    /\ ctx' = [ctx EXCEPT ![t].pc = "process", ![t].state_doc = EmptyMap]
    /\ UNCHANGED extVars
    /\ UNCHANGED <<log, vocab, file_states, player_lifecycle, player_sessions, voice,
                   loadPending, restarts, covered, lastCount, disturbed>>

\* _save_persistent_state: replace_one raises; the error is logged and dropped
SaveStateFails(t) ==
    /\ ctx[t].pc = "save"
    /\ ctx' = [ctx EXCEPT ![t].pc = "process", ![t].state_doc = EmptyMap]
    /\ disturbed' = TRUE
    /\ covered' = [s \in Servers |-> [i \in 1..MaxLines |-> <<>>]]
    /\ UNCHANGED extVars
    /\ UNCHANGED <<log, vocab, file_states, persisted, player_lifecycle, player_sessions,
                   voice, loadPending, restarts, lastCount>>

\* history: the lines of the slice are recorded under their index (at most twice)
Cover(cov, lines, from) ==
    [i \in DOMAIN cov |->
        IF i >= from /\ i <= Len(lines) /\ Len(cov[i]) < 2
        THEN Append(cov[i], lines[i]) ELSE cov[i]]

\* Both loops over lines_to_process, the event loop between them, the voice
\* channel update and the return to parse_server_logs.
ProcessLines(t) ==
    LET f == ctx[t]
        slice == LinesToProcess(f.lines, f.cold_start, f.last_processed)
        first == CollectEvents([lc |-> player_lifecycle, events |-> <<>>], slice)
        player_events == SortEvents(first.events)
        st == ProcessEvents([sess |-> player_sessions, embeds |-> <<>>, voice |-> FALSE],
                            player_events, first.lc, f.cold_start)
        embeds == WorldEvents(st.embeds, slice, f.cold_start)
        sends == f.via = "server_logs" /\ ~f.cold_start /\ embeds # <<>>
    IN  /\ f.pc = "process"
        /\ player_lifecycle' = first.lc
        /\ player_sessions' = st.sess
        /\ voice' = IF st.voice THEN VoiceCounts(st.sess, first.lc) ELSE voice
        /\ LET g == [f EXCEPT !.embeds = embeds,
                                !.voice_updates = IF st.voice THEN 1 ELSE 0]
           IN  ctx' = [ctx EXCEPT ![t] = IF sends THEN [g EXCEPT !.pc = "send"]
                                         ELSE Returned(g, "done")]
        /\ covered' = IF disturbed THEN covered
                      ELSE [covered EXCEPT ![f.server] =
                               Cover(@, f.lines, SliceStart(f.cold_start, f.last_processed))]
        /\ lastCount' = [lastCount EXCEPT ![f.server] = LineCount(file_states, f.server)]
        /\ UNCHANGED extVars
        /\ UNCHANGED <<log, vocab, file_states, persisted, loadPending, restarts,
                       disturbed>>

\* send_embeds
SendEmbeds(t) ==
    /\ ctx[t].pc = "send"
    /\ ctx' = [ctx EXCEPT ![t] = Returned(ctx[t], "done")]
    /\ UNCHANGED extVars
    /\ UNCHANGED <<log, vocab, file_states, persisted, player_lifecycle, player_sessions,
                   voice, loadPending, restarts, covered, lastCount, disturbed>>

\* The task is cancelled at the await it is suspended in (CancelledError is no
\* Exception: no handler of the scan catches it).
Cancel(t) ==
    /\ ctx[t].pc \in {"save", "process", "send"}
    /\ ctx' = [ctx EXCEPT ![t] = Returned(ctx[t], "cancelled")]
    /\ disturbed' = TRUE
    /\ covered' = [s \in Servers |-> [i \in 1..MaxLines |-> <<>>]]
    /\ UNCHANGED extVars
    /\ UNCHANGED <<log, vocab, file_states, persisted, player_lifecycle, player_sessions,
                   voice, loadPending, restarts, lastCount>>

-----------------------------------------------------------------------------
(* Construction, persistent state, reset *)

\* The process dies and is started again: __init__ of a new parser.
Restart ==
    /\ restarts < MaxRestarts
    /\ restarts' = restarts + 1
    /\ file_states' = EmptyMap
    /\ player_lifecycle' = EmptyMap
    /\ player_sessions' = EmptyMap
    /\ ctx' = [t \in Tasks |-> IdleFrame]
    /\ loadPending' = TRUE
    /\ disturbed' = TRUE
    /\ covered' = [s \in Servers |-> [i \in 1..MaxLines |-> <<>>]]
    /\ sftp_connections' = EmptyMap
    /\ transfer' = [t \in Tasks |-> IdleTransfer]
    /\ player_name_cache' = EmptyMap
    /\ delayed' = {}
    /\ run' = [t \in Tasks |-> IdleRun]
    /\ bot' = NewBot
    /\ ready' = [h \in DOMAIN ready |-> IdleReady]
    /\ sync' = IdleSync
    /\ UNCHANGED <<disk, clock>>
    /\ UNCHANGED <<credentials, local_files, pvp_data, players, kill_events, resolved>>
    /\ UNCHANGED <<log, vocab, persisted, voice, lastCount>>

\* _load_persistent_state: find_one returns
LoadState ==
    /\ loadPending
    /\ loadPending' = FALSE
    /\ file_states' = IF persisted.exists THEN persisted.fs ELSE file_states
    /\ disturbed' = (disturbed \/ file_states' # file_states)
    /\ covered' = IF disturbed' THEN [s \in Servers |-> [i \in 1..MaxLines |-> <<>>]]
                  ELSE covered
    /\ UNCHANGED extVars
    /\ UNCHANGED <<log, vocab, persisted, player_lifecycle, player_sessions, voice, ctx,
                   restarts, lastCount>>

\* _load_persistent_state: find_one raises; the error is logged and dropped
LoadStateFails ==
    /\ loadPending
    /\ loadPending' = FALSE
    /\ UNCHANGED extVars
    /\ UNCHANGED <<log, vocab, file_states, persisted, player_lifecycle, player_sessions,
                   voice, ctx, restarts, covered, lastCount, disturbed>>

\* reset_parser_state
ResetParserState ==
    /\ file_states # EmptyMap \/ player_lifecycle # EmptyMap \/ player_sessions # EmptyMap
    /\ file_states' = EmptyMap
    /\ player_sessions' = EmptyMap
    /\ player_lifecycle' = EmptyMap
    /\ lastCount' = [s \in Servers |-> 0]
    /\ disturbed' = TRUE
    /\ covered' = [s \in Servers |-> [i \in 1..MaxLines |-> <<>>]]
    /\ UNCHANGED extVars
    /\ UNCHANGED <<log, vocab, persisted, voice, ctx, loadPending, restarts>>

-----------------------------------------------------------------------------

Next ==
    \/ \E s \in Servers, w \in vocab \cup {NL} : WriteLog(s, w)
    \/ \E t \in Tasks, s \in Servers : ParseServerLogs(t, s)
    \/ \E t \in Tasks, s \in Servers : ParseLogContent(t, s)
    \/ \E t \in Tasks : SaveState(t)
    \/ \E t \in Tasks : SaveStateFails(t)
    \/ \E t \in Tasks : ProcessLines(t)
    \/ \E t \in Tasks : SendEmbeds(t)
    \/ \E t \in Tasks : Cancel(t)
    \/ Restart
    \/ LoadState
    \/ LoadStateFails

Spec == Init /\ [][Next]_vars

\* the same program with an operator who may reset the parser at any time
NextReset ==
    \/ Next
    \/ ResetParserState

SpecReset == Init /\ [][NextReset]_vars

\* scans by parse_server_logs and direct calls of parse_log_content, with a
\* database that answers and a process that stays up
NextQuiet ==
    \/ \E s \in Servers, w \in vocab \cup {NL} : WriteLog(s, w)
    \/ \E t \in Tasks, s \in Servers : ParseServerLogs(t, s)
    \/ \E t \in Tasks, s \in Servers : ParseLogContent(t, s)
    \/ \E t \in Tasks : SaveState(t)
    \/ \E t \in Tasks : ProcessLines(t)
    \/ LoadState

SpecOrdered == InitOrdered /\ [][NextQuiet]_vars

SpecServers == InitServers /\ [][NextQuiet]_vars

SpecTasks == InitTasks /\ [][Next]_vars

-----------------------------------------------------------------------------
(* Properties *)

\* a step in which task t enters a scan of server s
Begins(t, s) == ParseServerLogs(t, s) \/ ParseLogContent(t, s)

LinesOf(s) == SplitLines(log[s])

\* C1 (exactly-once line coverage): as long as no scan was cancelled, no write of
\* the cursor store failed and the cursor was not reset, lost or loaded over,
\* whenever no scan is in progress every line the cursor counts as processed was
\* processed by exactly one scan, with the content that line has in the text, and
\* no line beyond the cursor was processed.
C1_ExactlyOnceCoverage ==
    (~disturbed /\ \A t \in Tasks : ctx[t].pc = "idle") =>
        \A s \in Servers :
            \A i \in 1..Len(LinesOf(s)) :
                IF i <= LineCount(file_states, s)
                THEN covered[s][i] = <<LinesOf(s)[i]>>
                ELSE covered[s][i] = <<>>

\* C2 (idempotent no-op): a scan that is not cold and whose text has no more
\* lines than the cursor returns at once with no embeds and leaves the cursor,
\* the stored document, the lifecycle and session records and the voice channel
\* as they were; it never reaches the save.
C2_IdempotentNoOp ==
    [][\A t \in Tasks, s \in Servers :
          (/\ \/ ParseLogContent(t, s)
              \/ ParseServerLogs(t, s) /\ ColdStartComplete(file_states, s)
           /\ Len(LinesOf(s)) <= LineCount(file_states, s))
          => /\ ctx'[t].pc = "idle"
             /\ ctx'[t].embeds = <<>>
             /\ ctx'[t].voice_updates = 0
             /\ UNCHANGED <<file_states, persisted, player_lifecycle, player_sessions,
                            voice>>]_vars

\* a scan of a hot source with a stored cursor and an unchanged text has returned
C2_Witness ==
    \E t \in Tasks :
        /\ ctx[t].outcome = "noop"
        /\ persisted.exists
        /\ ColdStartComplete(file_states, ctx[t].server)
        /\ LineCount(file_states, ctx[t].server) = Len(LinesOf(ctx[t].server))

\* what a scan of all of `lines` with cold_start = False leaves in the two tables
HotResult(lines) ==
    LET first == CollectEvents([lc |-> player_lifecycle, events |-> <<>>], lines)
        st == ProcessEvents([sess |-> player_sessions, embeds |-> <<>>, voice |-> FALSE],
                            SortEvents(first.events), first.lc, FALSE)
    IN  [lc |-> first.lc, sess |-> st.sess]

\* C3 (cold start suppression): a scan entered through parse_server_logs with the
\* completion flag not set and M >= 1 lines sets the cursor to M and the flag;
\* its processing returns no embeds, sends nothing, and leaves the lifecycle and
\* session records a hot scan of the same M lines would leave.
C3_ColdStartSuppression ==
    [][\A t \in Tasks :
          /\ \A s \in Servers :
                (/\ ParseServerLogs(t, s)
                 /\ ~ColdStartComplete(file_states, s)
                 /\ log[s] # <<>>)
                => /\ ctx'[t].cold_start
                   /\ LineCount(file_states', s) = Len(LinesOf(s))
                   /\ ColdStartComplete(file_states', s)
          /\ (ProcessLines(t) /\ ctx[t].via = "server_logs" /\ ctx[t].cold_start)
                => /\ ctx'[t].embeds = <<>>
                   /\ ctx'[t].pc = "idle"
                   /\ player_lifecycle' = HotResult(ctx[t].lines).lc
                   /\ player_sessions' = HotResult(ctx[t].lines).sess]_vars

\* a cold scan has returned after applying a registration
C3_Witness ==
    \E t \in Tasks :
        /\ ctx[t].outcome = "done"
        /\ ctx[t].via = "server_logs"
        /\ ctx[t].cold_start
        /\ ctx[t].embeds = <<>>
        /\ \E p \in DOMAIN player_sessions : player_sessions[p].status = "online"

\* C4: a scan that runs cold, or with a processed-line count of 0, processes the
\* whole line list and produces no embeds.
C4_NoEmbedsWhenColdOrZero ==
    [][\A t \in Tasks :
          (ProcessLines(t) /\ (ctx[t].cold_start \/ ctx[t].last_processed = 0))
          => /\ ctx'[t].embeds = <<>>
             /\ player_lifecycle' = HotResult(ctx[t].lines).lc]_vars

\* the two lines of the scenario of C5
ScenarioLines == << <<QueueWord("X", <<"F", "o", "o">>)>>, <<RegWord("X")>> >>

\* C5: a scan that is not cold, with cursor 0, of the lines [connect-intent X
\* named Foo; connect-confirm X] returns exactly one connection embed carrying
\* the name Foo, leaves one session record, of X and online, and counts 1 active
\* player.
C5_ConnectScenario ==
    [][\A t \in Tasks :
          (/\ ProcessLines(t)
           /\ ~ctx[t].cold_start
           /\ ctx[t].last_processed = 0
           /\ ctx[t].lines = ScenarioLines)
          => /\ Len(ctx'[t].embeds) = 1
             /\ ctx'[t].embeds[1].title = "Reinforcements Arrive"
             /\ ctx'[t].embeds[1].name = <<"F", "o", "o">>
             /\ DOMAIN player_sessions' = {"X"}
             /\ player_sessions'["X"].status = "online"
             /\ voice'.active = 1]_vars

\* C6: the processed-line count a scan reads is never below the count the
\* previous completed scan of the source left, is never above the number of lines
\* of the text, and the scan does not lower it.
C6_CursorMonotone ==
    [][\A t \in Tasks, s \in Servers :
          Begins(t, s)
          => /\ LineCount(file_states, s) >= lastCount[s]
             /\ LineCount(file_states, s) <= Len(LinesOf(s))
             /\ LineCount(file_states', s) >= LineCount(file_states, s)]_vars

\* C7: while the lines of a slice are processed or delivered the stored document
\* holds the new cursor of the scan, and no scan takes a slice that starts below
\* the stored cursor.
C7_CommitBeforeProcessing ==
    [][\A t \in Tasks :
          /\ ctx'[t].pc \in {"process", "send"}
                => /\ persisted'.exists
                   /\ LineCount(persisted'.fs, ctx'[t].server) = Len(ctx'[t].lines)
                   /\ ColdStartComplete(persisted'.fs, ctx'[t].server)
          /\ \A s \in Servers :
                (Begins(t, s) /\ ctx'[t].pc = "save")
                => SliceStart(ctx'[t].cold_start, ctx'[t].last_processed)
                       > LineCount(persisted.fs, s)]_vars

\* C8: a scan cancelled before the cursor was stored leaves the processed-line
\* count of its source as the scan found it.
C8_AbortKeepsCursor ==
    [][\A t \in Tasks :
          (Cancel(t) /\ ctx[t].pc = "save")
          => LineCount(file_states', ctx[t].server) = ctx[t].last_processed]_vars

\* C9: a failed write of the cursor store ends the scan as a failed cycle and
\* leaves the processed-line count as the scan found it.
C9_SaveFailureSurfaces ==
    [][\A t \in Tasks :
          SaveStateFails(t)
          => /\ ctx'[t].pc = "idle"
             /\ ctx'[t].outcome = "failed"
             /\ LineCount(file_states', ctx[t].server) = ctx[t].last_processed]_vars

\* state of the lifecycle record of a player, "none" without a record
StateOf(lc, p) == IF p \in DOMAIN lc THEN lc[p].state ELSE "none"

LegalMove(from, to) ==
    \/ from = to
    \/ from = "none" /\ to \in {"queued", "joined"}
    \/ from = "queued" /\ to = "joined"
    \/ from = "joined" /\ to = "disconnected"
    \/ from = "disconnected" /\ to = "joined"

\* every line of `lines`, applied in turn from lc, moves every record legally
RECURSIVE LegalMoves(_, _)
LegalMoves(lc, lines) ==
    IF lines = <<>> THEN TRUE
    ELSE LET next == CollectLine([lc |-> lc, events |-> <<>>], Head(lines)).lc
         IN  /\ \A p \in DOMAIN next : LegalMove(StateOf(lc, p), StateOf(next, p))
             /\ LegalMoves(next, Tail(lines))

\* C10: the lines of a slice move a lifecycle record only queued -> joined,
\* joined -> disconnected, disconnected -> joined, or create it queued or joined.
C10_LifecycleMoves ==
    \A t \in Tasks :
        ctx[t].pc = "process"
        => LegalMoves(player_lifecycle,
                      LinesToProcess(ctx[t].lines, ctx[t].cold_start,
                                     ctx[t].last_processed))

-----------------------------------------------------------------------------
(* Properties of the identity events *)

\* the slice a scan in its processing step works on
SliceOf(t) == LinesToProcess(ctx[t].lines, ctx[t].cold_start, ctx[t].last_processed)

\* the first pass over the first n lines of a slice, from the records lc
After(lc, slice, n) == CollectEvents([lc |-> lc, events |-> <<>>], SubSeq(slice, 1, n))

\* a line that is a disconnect, and nothing else, of a player who is not joined
IsDangling(lc, line) ==
    /\ Matches(line, "disc") # {}
    /\ Matches(line, "queue") = {} /\ Matches(line, "reg") = {}
    /\ Matches(line, "mission") = {}
    /\ StateOf(lc, Search(line, "disc").id) # "joined"

\* C11 (dangling disconnect is dropped): a disconnect line of a player whose
\* lifecycle state, when the line is reached, is not joined adds no player event
\* and changes no lifecycle record; a scan whose slice holds nothing but such lines
\* returns no embed, leaves the lifecycle and session records and the published
\* counts as they were and calls no voice channel update.
C11_DanglingDisconnectDropped ==
    [][\A t \in Tasks :
          ProcessLines(t) =>
              /\ \A n \in 1..Len(SliceOf(t)) :
                    LET acc == After(player_lifecycle, SliceOf(t), n - 1)
                    IN  IsDangling(acc.lc, SliceOf(t)[n])
                        => CollectLine(acc, SliceOf(t)[n]) = acc
              /\ (\A n \in 1..Len(SliceOf(t)) : IsDangling(player_lifecycle, SliceOf(t)[n]))
                    => /\ ctx'[t].embeds = <<>>
                       /\ ctx'[t].voice_updates = 0
                       /\ UNCHANGED <<player_lifecycle, player_sessions, voice>>]_vars

\* a hot scan has returned from a slice that was the disconnect of a queued player
C11_Witness ==
    \E t \in Tasks :
        /\ ctx[t].outcome = "done"
        /\ ctx[t].via = "server_logs"
        /\ ~ctx[t].cold_start
        /\ ctx[t].voice_updates = 0
        /\ Len(LinesOf(ctx[t].server)) = 2
        /\ LineCount(file_states, ctx[t].server) = 2
        /\ IsDangling(player_lifecycle, LinesOf(ctx[t].server)[2])
        /\ StateOf(player_lifecycle, "X") = "queued"
        /\ player_sessions = EmptyMap

\* the connection embeds (joins and disconnects) of a returned list, in its order
IdentityTitles == {"Reinforcements Arrive", "Extraction Confirmed"}

IsIdentityEmbed(e) == e.title \in IdentityTitles

IdentityEmbeds(embeds) == SelectSeq(embeds, IsIdentityEmbed)

\* title of the embed of a player event
TitleOf(e) == IF e.type = "join" THEN "Reinforcements Arrive" ELSE "Extraction Confirmed"

\* the orders 1..n can be put in
Perms(n) == {f \in [1..n -> 1..n] : \A i, j \in 1..n : i # j => f[i] # f[j]}

\* order f puts the events in ascending timestamp order, events without a
\* timestamp first
Ascending(events, f) ==
    \A i, j \in 1..Len(events) : i < j => events[f[i]].timestamp <= events[f[j]].timestamp

\* C12 (chronological join/leave ordering): the connection embeds a hot scan
\* returns are one per player event of its slice, in ascending order of the
\* timestamps of their lines whatever the order of the lines, events without a
\* timestamp first.
C12_ChronologicalOrder ==
    [][\A t \in Tasks :
          (ProcessLines(t) /\ ~ctx[t].cold_start) =>
              LET events == After(player_lifecycle, SliceOf(t), Len(SliceOf(t))).events
                  shown == IdentityEmbeds(ctx'[t].embeds)
              IN  /\ Len(shown) = Len(events)
                  /\ \E f \in Perms(Len(events)) :
                        /\ Ascending(events, f)
                        /\ \A i \in 1..Len(events) :
                              shown[i].title = TitleOf(events[f[i]])]_vars

\* the lines of a slice in the order f
Permuted(lines, f) == [i \in 1..Len(lines) |-> lines[f[i]]]

\* every line carries a timestamp and no two lines carry the same
DistinctlyStamped(lines) ==
    /\ \A i \in 1..Len(lines) : LineTimestamp(lines[i]) # NoTs
    /\ \A i, j \in 1..Len(lines) : i # j => LineTimestamp(lines[i]) # LineTimestamp(lines[j])

\* C13 (state independent of raw line order): the lifecycle and session records a
\* scan leaves are those it would leave had the same timestamped lines stood in
\* any other order in the text.
C13_OrderIndependentState ==
    [][\A t \in Tasks :
          (ProcessLines(t) /\ DistinctlyStamped(SliceOf(t))) =>
              \A f \in Perms(Len(SliceOf(t))) :
                  /\ player_lifecycle' = HotResult(Permuted(SliceOf(t), f)).lc
                  /\ player_sessions' = HotResult(Permuted(SliceOf(t), f)).sess]_vars

\* the players the game server writes about
Players == {w.id : w \in {v \in vocab : v.k \in {"queue", "reg", "disc"}}}

\* the identity words of a line that name player p
Mentions(line, p) ==
    {i \in 1..Len(line) : line[i].k \in {"queue", "reg", "disc"} /\ line[i].id = p}

\* the lines of the slice that name p
LinesAbout(slice, p) == {n \in 1..Len(slice) : Mentions(slice[n], p) # {}}

\* p has no lifecycle record and the slice names p in one line only, a
\* connect-confirm
ConfirmedUnseen(lc, slice, p) ==
    /\ p \notin DOMAIN lc
    /\ \E n \in 1..Len(slice) :
          /\ LinesAbout(slice, p) = {n}
          /\ \A i \in Mentions(slice[n], p) : slice[n][i].k = "reg"

\* C14 (connect-confirm without a record is not dropped): it creates the
\* lifecycle record in state joined with the placeholder name made from the
\* identifier, an online session record with that name, and the scan publishes an
\* occupancy that counts the player.
C14_ConfirmWithoutIntent ==
    [][\A t \in Tasks :
          ProcessLines(t) =>
              \A p \in Players :
                  ConfirmedUnseen(player_lifecycle, SliceOf(t), p) =>
                      /\ p \in DOMAIN player_lifecycle'
                      /\ player_lifecycle'[p].state = "joined"
                      /\ player_lifecycle'[p].name = <<"Player", p>>
                      /\ p \in DOMAIN player_sessions'
                      /\ player_sessions'[p].status = "online"
                      /\ player_sessions'[p].player_name = <<"Player", p>>
                      /\ ctx'[t].voice_updates = 1
                      /\ voice'.active =
                            Cardinality({q \in DOMAIN player_sessions' :
                                            player_sessions'[q].status = "online"})
                      /\ voice'.active >= 1]_vars

\* a scan has returned that made a player joined and online under the placeholder
C14_Witness ==
    \E t \in Tasks, p \in Players :
        /\ ctx[t].outcome = "done"
        /\ ctx[t].voice_updates = 1
        /\ StateOf(player_lifecycle, p) = "joined"
        /\ player_lifecycle[p].name = <<"Player", p>>
        /\ p \in DOMAIN player_sessions
        /\ player_sessions[p] = [player_name |-> <<"Player", p>>, platform |-> "Unknown",
                                 status |-> "online"]
        /\ voice.active = 1

\* the player events the first pass collects from the slice, in raw line order
EventsOf(t) == After(player_lifecycle, SliceOf(t), Len(SliceOf(t))).events

\* the events of player p among `events`, by index
EventsAbout(events, p) == {i \in 1..Len(events) : events[i].player_id = p}

\* C15 (sessions follow the transitions): a scan deletes no session record; a
\* player without an event keeps the record untouched; a player whom the scan
\* leaves joined after a transition into joined has a record with status online; a
\* player whom it leaves disconnected after a transition into disconnected has
\* their record set offline; and a record that no join of the slice rewrote keeps
\* its name and platform.
C15_SessionsFollowTransitions ==
    [][\A t \in Tasks :
          ProcessLines(t) =>
              /\ DOMAIN player_sessions \subseteq DOMAIN player_sessions'
              /\ \A p \in Players \cup DOMAIN player_sessions :
                    LET about == EventsAbout(EventsOf(t), p)
                        joins == {i \in about : EventsOf(t)[i].type = "join"}
                        leaves == {i \in about : EventsOf(t)[i].type = "disconnect"}
                    IN  IF about = {}
                        THEN IF p \in DOMAIN player_sessions
                             THEN player_sessions'[p] = player_sessions[p]
                             ELSE p \notin DOMAIN player_sessions'
                        ELSE /\ (joins # {} /\ StateOf(player_lifecycle', p) = "joined")
                                   => /\ p \in DOMAIN player_sessions'
                                      /\ player_sessions'[p].status = "online"
                             /\ (/\ leaves # {}
                                 /\ StateOf(player_lifecycle', p) = "disconnected"
                                 /\ p \in DOMAIN player_sessions')
                                   => player_sessions'[p].status = "offline"
                             /\ (joins = {} /\ p \in DOMAIN player_sessions)
                                   => player_sessions'[p] =
                                         [player_sessions[p] EXCEPT !.status = "offline"]]_vars

lifecycle_key(server_id, player_id) == player_id

\* the records of a map held under the keys of server_id for the players ps
RecordsOf(map, server_id, ps) ==
    LET keys == {lifecycle_key(server_id, p) : p \in ps} \cap DOMAIN map
    IN  [k \in keys |-> map[k]]

\* the players named in the lines of s that its last completed scan counted
ScannedPlayers(s) ==
    {p \in Players :
        \E n \in 1..lastCount[s] :
            n <= Len(LinesOf(s)) /\ Mentions(LinesOf(s)[n], p) # {}}

\* C17 (partition by source): a scan of one source leaves the cursor of every
\* other source alone, and its processing leaves alone the lifecycle and session
\* records that another source holds for the players that source has scanned.
C17_PartitionedBySource ==
    [][\A t \in Tasks :
          /\ \A s \in Servers :
                Begins(t, s) =>
                    \A o \in Servers \ {s} :
                        /\ LineCount(file_states', o) = LineCount(file_states, o)
                        /\ ColdStartComplete(file_states', o)
                              = ColdStartComplete(file_states, o)
          /\ ProcessLines(t) =>
                \A o \in Servers \ {ctx[t].server} :
                    /\ RecordsOf(player_lifecycle', o, ScannedPlayers(o))
                          = RecordsOf(player_lifecycle, o, ScannedPlayers(o))
                    /\ RecordsOf(player_sessions', o, ScannedPlayers(o))
                          = RecordsOf(player_sessions, o, ScannedPlayers(o))]_vars

-----------------------------------------------------------------------------
(* Properties of the occupancy update and of the returned list *)

\* the lines of a slice that carry a connect-intent
IntentLines(slice) == {n \in 1..Len(slice) : Matches(slice[n], "queue") # {}}

\* C18 (one occupancy update per scan): the processing of a scan calls the voice
\* channel update once if it applied an identity event (a connect-intent, a
\* connect-confirm or a disconnect that passed the guard), and not at all otherwise.
C18_OneUpdatePerScan ==
    [][\A t \in Tasks :
          ProcessLines(t) =>
              ctx'[t].voice_updates =
                  IF IntentLines(SliceOf(t)) # {} \/ EventsOf(t) # <<>> THEN 1 ELSE 0]_vars

\* C19 (identity notifications first): the list a hot scan (not cold, cursor
\* above 0) returns starts with one
\* connection embed per player event of its slice, in the sorted order of the
\* events, and continues with the embeds of the world events in the order of their
\* lines; nothing else is in it.
C19_IdentityBeforeWorld ==
    [][\A t \in Tasks :
          (ProcessLines(t) /\ ~ctx[t].cold_start /\ ctx[t].last_processed > 0) =>
              LET player_events == SortEvents(EventsOf(t))
                  returned == ctx'[t].embeds
                  k == Len(player_events)
              IN  /\ Len(returned) >= k
                  /\ \A i \in 1..k : returned[i].title = TitleOf(player_events[i])
                  /\ SubSeq(returned, k + 1, Len(returned))
                        = WorldEvents(<<>>, SliceOf(t), FALSE)]_vars

-----------------------------------------------------------------------------
(* Properties of the callers *)

\* task t is inside a scan of source s, suspended at one of its awaits
InProgress(t, s) == ctx[t].pc # "idle" /\ ctx[t].server = s

\* C20 (scans are serialized): the initial run started at setup and the run of
\* the interval job are never inside a scan of the same source at the same time.
C20_ScansSerialized ==
    \A s \in Servers :
        \A t1, t2 \in Tasks : (InProgress(t1, s) /\ InProgress(t2, s)) => t1 = t2

-----------------------------------------------------------------------------
(* get_sftp_connection and get_log_content: the remote transport *)

\* `for attempt in range(3)`
MaxAttempts == 3

\* asyncio.wait_for(asyncssh.connect(...), timeout=30), in seconds
ConnectTimeout == 30

\* a wait that grows by a fixed step instead of doubling
BackoffMutant(attempt) == 2 * attempt

\* asyncio.sleep(2 ** attempt), in seconds
Backoff(attempt) == 2 ^ attempt

\* the log get_log_content writes when the local file is missing: of its six
\* lines the join request (Name before eosid) and the disconnect (no "LogNet: ")
\* match no pattern but the timestamp
TestContent ==
    <<TsWord(1), MissionWord("GA_Airport_mis_01_SFPSACMission", "READY"), NL,
      TsWord(2), NL,
      TsWord(3), RegWord("abc123def456"), NL,
      TsWord(4), MissionWord("GA_Airport_mis_01_SFPSACMission", "IN_PROGRESS"), NL,
      TsWord(5), MissionWord("GA_Airport_mis_01_SFPSACMission", "COMPLETED"), NL,
      TsWord(6)>>

\* a local copy of the log left by an earlier run
LocalText == <<RegWord("X"), NL>>

\* get_log_content returns to parse_server_logs, which returns on `not content`
\* (None or an empty text) and else goes on to parse_log_content, up to its
\* first await; f is the frame of the fetch, kind "None" or "text"
ReturnContent(t, f, kind, content) ==
    /\ transfer' = [transfer EXCEPT ![t] = [f EXCEPT !.pc = "idle", !.content = kind]]
    /\ BeginWith(t, f.server, "server_logs", ~ColdStartComplete(file_states, f.server),
                 content)

\* "Fallback to local file": the file is read if it exists and is written with
\* the test log if it does not; fs_ok = the file system calls do not raise
FallbackToLocal(t, f, fs_ok) ==
    LET file == local_files[f.server]
    IN  IF ~fs_ok
        THEN /\ ReturnContent(t, f, "None", <<>>)
             /\ UNCHANGED local_files
        ELSE IF file.exists
        THEN /\ ReturnContent(t, f, "text", file.text)
             /\ UNCHANGED local_files
        ELSE /\ ReturnContent(t, f, "text", TestContent)
             /\ local_files' = [local_files EXCEPT ![f.server] =
                                   [exists |-> TRUE, text |-> TestContent]]

\* parse_server_logs calls get_log_content, which calls get_sftp_connection: up
\* to the first await (asyncssh.connect, or start_sftp_client on a connection
\* that is kept and open)
FetchBegin(t, s, fs_ok) ==
    LET f == [IdleTransfer EXCEPT !.server = s]
    IN  /\ ctx[t].pc = "idle"
        /\ transfer[t].pc = "idle"
        /\ UNCHANGED credentials
        /\ IF ~credentials[s]
           THEN /\ FallbackToLocal(t, [f EXCEPT !.conn = "None"], fs_ok)
                /\ UNCHANGED sftp_connections
           ELSE IF s \in DOMAIN sftp_connections /\ sftp_connections[s] = "open"
           THEN /\ transfer' = [transfer EXCEPT ![t] = [f EXCEPT !.pc = "read",
                                                                  !.conn = "conn"]]
                /\ UNCHANGED <<sftp_connections, local_files>>
                /\ UNCHANGED scanVars
           ELSE /\ transfer' = [transfer EXCEPT ![t] = [f EXCEPT !.pc = "connect"]]
                /\ sftp_connections' = [k \in DOMAIN sftp_connections \ {s} |->
                                           sftp_connections[k]]
                /\ UNCHANGED local_files
                /\ UNCHANGED scanVars
        /\ UNCHANGED restVars

\* asyncssh.connect returns within the timeout
ConnectOk(t) ==
    LET f == transfer[t]
    IN  /\ f.pc = "connect"
        /\ sftp_connections' = Put(sftp_connections, f.server, "open")
        /\ transfer' = [transfer EXCEPT ![t] = [f EXCEPT !.pc = "read", !.conn = "conn",
                                                         !.tries = @ + 1,
                                                         !.elapsed = @ + 1]]
        /\ UNCHANGED <<credentials, local_files>>
        /\ UNCHANGED scanVars
        /\ UNCHANGED restVars

\* the attempt ends in asyncio.TimeoutError (kind "timeout") or asyncssh.Error
\* (kind "error"): sleep if it was not the last one, else `return None`
ConnectFails(t, kind, fs_ok) ==
    LET f == transfer[t]
        g == [f EXCEPT !.tries = @ + 1,
                       !.elapsed = @ + (IF kind = "timeout" THEN ConnectTimeout ELSE 1)]
    IN  /\ f.pc = "connect"
        /\ UNCHANGED <<credentials, sftp_connections>>
        /\ IF f.attempt < 2
           THEN /\ transfer' = [transfer EXCEPT ![t] = [g EXCEPT !.pc = "sleep"]]
                /\ UNCHANGED local_files
                /\ UNCHANGED scanVars
           ELSE FallbackToLocal(t, [g EXCEPT !.conn = "None"], fs_ok)
        /\ UNCHANGED restVars

\* the attempt raises anything else (OSError: connection refused, no route):
\* the outer handler of get_sftp_connection returns None
ConnectRaises(t, fs_ok) ==
    LET f == transfer[t]
    IN  /\ f.pc = "connect"
        /\ UNCHANGED <<credentials, sftp_connections>>
        /\ FallbackToLocal(t, [f EXCEPT !.tries = @ + 1, !.elapsed = @ + 1,
                                        !.conn = "None"], fs_ok)
        /\ UNCHANGED restVars

\* the sleep between two attempts is over
Sleep(t) ==
    LET f == transfer[t]
    IN  /\ f.pc = "sleep"
        /\ transfer' = [transfer EXCEPT ![t] =
                           [f EXCEPT !.pc = "connect",
                                     !.waits = Append(@, Backoff(f.attempt)),
                                     !.elapsed = @ + Backoff(f.attempt),
                                     !.attempt = @ + 1]]
        /\ UNCHANGED <<credentials, sftp_connections, local_files>>
        /\ UNCHANGED scanVars
        /\ UNCHANGED restVars

\* sftp.stat and f.read() return: the content is the remote log
ReadOk(t) ==
    /\ transfer[t].pc = "read"
    /\ ReturnContent(t, transfer[t], "text", log[transfer[t].server])
    /\ UNCHANGED <<credentials, sftp_connections, local_files>>
    /\ UNCHANGED restVars

\* the remote file is not there, or start_sftp_client, stat or read raise
ReadFails(t, fs_ok) ==
    /\ transfer[t].pc = "read"
    /\ FallbackToLocal(t, transfer[t], fs_ok)
    /\ UNCHANGED <<credentials, sftp_connections>>
    /\ UNCHANGED restVars

\* the remote host closes a connection the parser keeps
ConnectionDrops(s) ==
    /\ s \in DOMAIN sftp_connections
    /\ sftp_connections[s] = "open"
    /\ \A t \in Tasks : transfer[t].pc # "read"
    /\ sftp_connections' = [sftp_connections EXCEPT ![s] = "closed"]
    /\ UNCHANGED <<credentials, local_files, transfer>>
    /\ UNCHANGED scanVars
    /\ UNCHANGED restVars

\* one server behind a transport that may fail, with or without credentials and
\* with or without a local copy of the log
InitFetch ==
    /\ ScanStart({"s1"}, {1}, {VocabShared})
    /\ credentials \in [{"s1"} -> BOOLEAN]
    /\ sftp_connections = EmptyMap
    /\ local_files \in [{"s1"} -> {NoFile, [exists |-> TRUE, text |-> LocalText]}]
    /\ transfer = [t \in {1} |-> IdleTransfer]
    /\ ResolverUnused
    /\ RunUnused({1})
    /\ BotUnused

NextFetch ==
    \/ \E s \in Servers, w \in vocab \cup {NL} : WriteLog(s, w)
    \/ \E t \in Tasks, s \in Servers, fs_ok \in BOOLEAN : FetchBegin(t, s, fs_ok)
    \/ \E t \in Tasks : ConnectOk(t)
    \/ \E t \in Tasks, kind \in {"timeout", "error"}, fs_ok \in BOOLEAN :
          ConnectFails(t, kind, fs_ok)
    \/ \E t \in Tasks, fs_ok \in BOOLEAN : ConnectRaises(t, fs_ok)
    \/ \E t \in Tasks : Sleep(t)
    \/ \E t \in Tasks : ReadOk(t)
    \/ \E t \in Tasks, fs_ok \in BOOLEAN : ReadFails(t, fs_ok)
    \/ \E s \in Servers : ConnectionDrops(s)
    \/ \E t \in Tasks : SaveState(t)
    \/ \E t \in Tasks : ProcessLines(t)

SpecFetch == InitFetch /\ [][NextFetch]_vars

\* C21 (bounded connection attempts): a call of get_sftp_connection makes at most
\* 3 connection attempts, each over within the timeout; it has slept 1 s after
\* the first failed attempt and 2 s after the second and never after the third;
\* it sleeps only when another attempt follows; it goes on to read only with a
\* connection, which ends the attempts; and once 3 attempts have failed it has
\* returned None.
C21_BoundedConnect ==
    \A t \in Tasks :
        LET f == transfer[t]
        IN  /\ f.tries <= MaxAttempts
            /\ f.attempt < MaxAttempts
            /\ f.waits = SubSeq(<<1, 2>>, 1, f.attempt)
            /\ f.elapsed <= 3 * 30 + 1 + 2
            /\ f.pc = "connect" => (f.tries = f.attempt /\ f.conn = "unset")
            /\ f.pc = "sleep" => (f.tries = f.attempt + 1 /\ f.tries < 3
                                  /\ f.conn = "unset")
            /\ f.pc = "read" => f.conn = "conn"
            /\ (f.tries = 3 /\ f.pc \notin {"read"} /\ f.conn # "conn")
                  => (f.pc = "idle" /\ f.conn = "None")

\* three attempts have failed, with both sleeps between them, and the call has
\* returned None
C21_Witness ==
    \E t \in Tasks :
        /\ transfer[t].pc = "idle"
        /\ transfer[t].tries = 3
        /\ transfer[t].waits = <<1, 2>>
        /\ transfer[t].conn = "None"

\* the last connection attempt of the fetch of task t fails
RetriesExhausted(t) ==
    /\ transfer[t].attempt = MaxAttempts - 1
    /\ \E kind \in {"timeout", "error"}, fs_ok \in BOOLEAN : ConnectFails(t, kind, fs_ok)

\* C22 (failed fetch skips the scan): when the last connection attempt of a fetch
\* fails and the source has no local file, get_log_content yields no content,
\* parse_server_logs returns without scanning, and the cursor, the completion
\* flag, the lifecycle records and the session records stay as they were.
C22_FailedFetchSkipsScan ==
    [][\A t \in Tasks :
          (RetriesExhausted(t) /\ ~local_files[transfer[t].server].exists)
          => /\ transfer'[t].content = "None"
             /\ ctx'[t].pc = "idle"
             /\ ctx'[t].outcome = "nocontent"
             /\ UNCHANGED <<file_states, player_lifecycle, player_sessions>>]_vars

-----------------------------------------------------------------------------
(* resolve_player_name: identifiers and names *)

\* An identifier is the sequence of its characters taken two by two, a name the
\* sequence of its characters, with Player and Unknown standing for their letters.
IdA == <<"ab", "cd", "ef", "01", "23", "45", "67", "89">>

\* an identifier with the first 8 characters of IdA
IdB == <<"ab", "cd", "ef", "01", "ff", "ff", "ff", "ff">>

\* an identifier of 4 characters
IdShort == <<"ab", "cd">>

\* len(player_id)
IdLen(player_id) == 2 * Len(player_id)

\* player_id[:n], n even
TakeChars(player_id, n) == SubSeq(player_id, 1, n \div 2)

\* player_id[-n:], n even
LastChars(player_id, n) == SubSeq(player_id, Len(player_id) - (n \div 2) + 1, Len(player_id))

\* str.upper()
Upper(text) ==
    [i \in 1..Len(text) |->
        CASE text[i] = "ab" -> "AB"
          [] text[i] = "cd" -> "CD"
          [] text[i] = "ef" -> "EF"
          [] text[i] = "ff" -> "FF"
          [] OTHER -> text[i]]

\* 'Unknown Player'
UnknownPlayer == <<"Unknown", " ", "Player">>

\* name.startswith('Player_')
StartsWithPlayer_(name) == Len(name) >= 2 /\ name[1] = "Player" /\ name[2] = "_"

\* len(name)
RECURSIVE CharLen(_)
CharLen(name) ==
    IF name = <<>> THEN 0
    ELSE CharLen(Tail(name))
         + (CASE Head(name) = "Player" -> 6
              [] Head(name) = "Unknown" -> 7
              [] Head(name) \in {"AB", "CD", "EF", "FF", "01", "23", "45", "67", "89"} -> 2
              [] OTHER -> 1)

\* the name the registered branch of the scan gives a player it has no record of:
\* f"Player{player_id[:8].upper()}"
ConfirmedName(player_id) == <<"Player">> \o Upper(TakeChars(player_id, 8))

\* temp_name = f"Player{prefix}{suffix}"
TempName(player_id) ==
    <<"Player">> \o Upper(TakeChars(player_id, 4)) \o Upper(LastChars(player_id, 4))

\* re.sub(r'[^\w\s\-_\[\]().]', '', name)
WordChars(name) == SelectSeq(name, LAMBDA c : c \notin {"!", "%20", "+"})

\* decoded_name and clean_name of Method 1
CleanName(name) ==
    LET decoded_name == Unquote(Unquote(Unquote(name)))
    IN  Strip(WordChars(PlusToSpace(decoded_name)))

Hit(name, source) == [hit |-> TRUE, name |-> name, source |-> source]

Miss == [hit |-> FALSE, name |-> <<>>, source |-> "none"]

\* "Check cache first"
Cached(cache, player_id) ==
    IF /\ player_id \in DOMAIN cache
       /\ ~StartsWithPlayer_(cache[player_id])
       /\ cache[player_id] # UnknownPlayer
    THEN Hit(cache[player_id], "cache")
    ELSE Miss

\* Method 1: the name of the lifecycle record
FromLifecycle(lc, player_id) ==
    IF player_id \notin DOMAIN lc THEN Miss
    ELSE LET name == lc[player_id].name
             clean_name == CleanName(name)
         IN  IF /\ name # <<>> /\ Strip(name) # <<>> /\ name # UnknownPlayer
                /\ clean_name # <<>> /\ CharLen(clean_name) >= 2
                /\ clean_name # UnknownPlayer
             THEN Hit(clean_name, "lifecycle")
             ELSE Miss

\* a test that lets any name of the store through
AcceptableStoreNameMutant(name) == TRUE

\* `name and name.strip() and name != 'Unknown Player' and not
\* name.startswith('Player_')` of 2a, 2b and 2e
AcceptableStoreName(name) ==
    /\ name # <<>>
    /\ Strip(name) # <<>>
    /\ name # UnknownPlayer
    /\ ~StartsWithPlayer_(name)

\* a document of pvp_data
PvpDoc(player_id, player_name, recent) ==
    [player_id |-> player_id, player_name |-> player_name, recent |-> recent]

\* the smallest index of a set of indexes
First(idxs) == CHOOSE i \in idxs : \A j \in idxs : i <= j

\* the first n indexes of a set: cursor.limit(n)
Limit(idxs, n) == {i \in idxs : Cardinality({j \in idxs : j < i}) < n}

\* 2a: find_one on the exact identifier
ExactMatch(docs, player_id) ==
    LET found == {i \in 1..Len(docs) : docs[i].player_id = player_id}
    IN  IF found # {} /\ AcceptableStoreName(docs[First(found)].player_name)
        THEN Hit(docs[First(found)].player_name, "exact")
        ELSE Miss

\* .limit(5) of 2b
PrefixLimit == 5

\* 2b, one prefix length: the index of the document whose name is taken, or 0
PrefixDoc(docs, player_id, prefix_length) ==
    LET matching == {i \in 1..Len(docs) :
                        /\ IdLen(docs[i].player_id) >= prefix_length
                        /\ Upper(TakeChars(docs[i].player_id, prefix_length))
                              = Upper(TakeChars(player_id, prefix_length))}
        good == {i \in Limit(matching, PrefixLimit) :
                    AcceptableStoreName(docs[i].player_name)}
    IN  IF IdLen(player_id) >= prefix_length /\ good # {} THEN First(good) ELSE 0

\* for prefix_length in [12, 8, 6, 4]
PrefixLengths == <<12, 8, 6, 4>>

\* 2b: the first prefix length, in that order, with a document: [n, doc], or
\* [0, 0]
PrefixMatch(docs, player_id) ==
    LET tried == {k \in 1..Len(PrefixLengths) :
                     PrefixDoc(docs, player_id, PrefixLengths[k]) # 0}
    IN  IF tried = {} THEN [n |-> 0, doc |-> 0]
        ELSE [n |-> PrefixLengths[First(tried)],
              doc |-> PrefixDoc(docs, player_id, PrefixLengths[First(tried)])]

\* update_one of 2b: the document takes the identifier asked for and becomes
\* the latest
Claimed(docs, i, player_id) ==
    <<[docs[i] EXCEPT !.player_id = player_id, !.recent = TRUE]>>
    \o SubSeq(docs, 1, i - 1) \o SubSeq(docs, i + 1, Len(docs))

\* number of leading characters two identifiers share
RECURSIVE CommonPrefix(_, _)
CommonPrefix(a, b) ==
    IF a = <<>> \/ b = <<>> \/ Head(a) # Head(b) THEN 0
    ELSE 2 + CommonPrefix(Tail(a), Tail(b))

\* .limit(100) of 2c
RecentLimit == 100

\* `if common_prefix >= 8`
StrongSimilarity == 8

\* 2c: the documents of the last 7 days with a similar identifier
RecentSimilar(docs, player_id) ==
    LET recent == Limit({i \in 1..Len(docs) : docs[i].recent}, RecentLimit)
        similar == {i \in recent :
                       /\ docs[i].player_id # <<>>
                       /\ docs[i].player_name # <<>>
                       /\ ~StartsWithPlayer_(docs[i].player_name)
                       /\ CommonPrefix(player_id, docs[i].player_id) >= StrongSimilarity}
    IN  IF similar = {} THEN Miss ELSE Hit(docs[First(similar)].player_name, "similar")

\* 2d: the linked player
Linked(coll, player_id) ==
    IF /\ player_id \in DOMAIN coll
       /\ coll[player_id] # <<>> /\ Strip(coll[player_id]) # <<>>
       /\ coll[player_id] # UnknownPlayer
    THEN Hit(coll[player_id], "linked")
    ELSE Miss

\* 2e: the kill events of the last day the player is part of
KillName(event, player_id) ==
    IF event.killer_id = player_id THEN event.killer ELSE event.victim

Kills(events, player_id) ==
    LET mine == {i \in 1..Len(events) :
                    /\ player_id \in {events[i].killer_id, events[i].victim_id}
                    /\ AcceptableStoreName(KillName(events[i], player_id))}
    IN  IF mine = {} THEN Miss ELSE Hit(KillName(events[First(mine)], player_id), "kills")

\* Method 3: the online sessions whose identifier starts with the same 8
\* characters
SimilarSessions(sess, player_id) ==
    {k \in DOMAIN sess :
        /\ sess[k].status = "online"
        /\ sess[k].player_name # <<>>
        /\ ~StartsWithPlayer_(sess[k].player_name)
        /\ IdLen(k) >= 8 /\ IdLen(player_id) >= 8
        /\ TakeChars(k, 8) = TakeChars(player_id, 8)}

-----------------------------------------------------------------------------
(* resolve_player_name: the cascade *)

\* what the database does during one call: it answers ("none"), the bot has no
\* db_manager ("missing"), or the named lookup raises
DbFaults == {"none", "missing", "exact", "prefix", "recent", "linked", "kills"}

PrefixSource(n) ==
    CASE n = 12 -> "prefix12" [] n = 8 -> "prefix8" [] n = 6 -> "prefix6"
      [] OTHER -> "prefix4"

\* Method 2, 2a to 2e: [hit, name, source, docs]; an error of a lookup is caught
\* after the lookups and ends them
StoreLookup(docs, coll, events, player_id, fault) ==
    LET none == [hit |-> FALSE, name |-> <<>>, source |-> "none", docs |-> docs]
        keep(r) == [hit |-> r.hit, name |-> r.name, source |-> r.source, docs |-> docs]
        exact == ExactMatch(docs, player_id)
        prefix == PrefixMatch(docs, player_id)
        similar == RecentSimilar(docs, player_id)
        linked == Linked(coll, player_id)
        kills == Kills(events, player_id)
    IN  IF fault \in {"missing", "exact"} THEN none
        ELSE IF exact.hit THEN keep(exact)
        ELSE IF fault = "prefix" THEN none
        ELSE IF prefix.doc # 0
        THEN [hit |-> TRUE, name |-> docs[prefix.doc].player_name,
              source |-> PrefixSource(prefix.n),
              docs |-> Claimed(docs, prefix.doc, player_id)]
        ELSE IF fault = "recent" THEN none
        ELSE IF similar.hit THEN keep(similar)
        ELSE IF fault = "linked" THEN none
        ELSE IF linked.hit THEN keep(linked)
        ELSE IF fault = "kills" THEN none
        ELSE keep(kills)

\* a last resort that caches the name of the error handler instead of the one
\* it returns
LastResortMutant(cache, player_id) ==
    IF IdLen(player_id) >= 8
    THEN [name |-> TempName(player_id), source |-> "placeholder",
          cache |-> Put(cache, player_id, ConfirmedName(player_id)), delay |-> TRUE]
    ELSE [name |-> <<"Unknown", "Player">>, source |-> "fallback", cache |-> cache,
          delay |-> FALSE]

\* Method 4 and the absolute fallback: [name, source, cache, delay]
LastResort(cache, player_id) ==
    IF IdLen(player_id) >= 8
    THEN [name |-> TempName(player_id), source |-> "placeholder",
          cache |-> Put(cache, player_id, TempName(player_id)), delay |-> TRUE]
    ELSE [name |-> <<"Unknown", "Player">>, source |-> "fallback", cache |-> cache,
          delay |-> FALSE]

\* resolve_player_name: [name, source, cache, docs, delay]
Resolve(cache, lc, sess, docs, coll, events, player_id, fault) ==
    LET out(name, source, c, d) ==
            [name |-> name, source |-> source, cache |-> c, docs |-> d, delay |-> FALSE]
        cached == Cached(cache, player_id)
        lifecycle == FromLifecycle(lc, player_id)
        store == StoreLookup(docs, coll, events, player_id, fault)
        sessions == SimilarSessions(sess, player_id)
        session_name == sess[CHOOSE k \in sessions : TRUE].player_name
        last == LastResort(cache, player_id)
    IN  IF cached.hit THEN out(cached.name, "cache", cache, docs)
        ELSE IF lifecycle.hit
        THEN out(lifecycle.name, "lifecycle", Put(cache, player_id, lifecycle.name), docs)
        ELSE IF store.hit
        THEN out(store.name, store.source, Put(cache, player_id, store.name), store.docs)
        ELSE IF sessions # {}
        THEN out(session_name, "session", Put(cache, player_id, session_name), docs)
        ELSE [name |-> last.name, source |-> last.source, cache |-> last.cache,
              docs |-> docs, delay |-> last.delay]

\* history: something in the lifecycle records, the collections or the sessions
\* could name the player
Backed(player_id) ==
    \/ player_id \in DOMAIN player_lifecycle
    \/ pvp_data # <<>>
    \/ player_id \in DOMAIN players
    \/ kill_events # <<>>
    \/ SimilarSessions(player_sessions, player_id) # {}

\* one call of resolve_player_name
ResolvePlayerName(player_id, fault) ==
    LET r == Resolve(player_name_cache, player_lifecycle, player_sessions, pvp_data,
                     players, kill_events, player_id, fault)
    IN  /\ player_name_cache' = r.cache
        /\ pvp_data' = r.docs
        /\ delayed' = IF r.delay THEN delayed \cup {player_id} ELSE delayed
        /\ resolved' = [player_id |-> player_id, name |-> r.name, source |-> r.source,
                        faulty |-> fault # "none", backed |-> Backed(player_id)]
        /\ UNCHANGED <<players, kill_events>>
        /\ UNCHANGED <<scanVars, transportVars, runVars, botVars>>

\* `name and name.strip() and not name.startswith('Player_')` of the delayed lookup
DelayedAcceptable(name) ==
    name # <<>> /\ Strip(name) # <<>> /\ ~StartsWithPlayer_(name)

\* _delayed_name_resolution, 30 s after a temporary name was returned: the exact
\* document, then the kill events; an error is logged and dropped
DelayedNameResolution(player_id, fault) ==
    LET found == {i \in 1..Len(pvp_data) : pvp_data[i].player_id = player_id}
        mine == {i \in 1..Len(kill_events) :
                    player_id \in {kill_events[i].killer_id, kill_events[i].victim_id}
                    /\ DelayedAcceptable(KillName(kill_events[i], player_id))}
    IN  /\ player_id \in delayed
        /\ delayed' = delayed \ {player_id}
        /\ player_name_cache' =
              IF fault # "none" THEN player_name_cache
              ELSE IF found # {} /\ DelayedAcceptable(pvp_data[First(found)].player_name)
              THEN Put(player_name_cache, player_id, pvp_data[First(found)].player_name)
              ELSE IF mine # {}
              THEN Put(player_name_cache, player_id,
                       KillName(kill_events[First(mine)], player_id))
              ELSE player_name_cache
        /\ UNCHANGED <<pvp_data, players, kill_events, resolved>>
        /\ UNCHANGED <<scanVars, transportVars, runVars, botVars>>

\* largest number of documents in pvp_data
MaxDocs == 2

\* the documents the statistics side of the bot may write
StoreDocs ==
    {PvpDoc(IdA, <<"F", "o", "o">>, TRUE), PvpDoc(IdA, <<>>, TRUE),
     PvpDoc(IdB, <<"B", "a", "r">>, TRUE), PvpDoc(IdB, UnknownPlayer, TRUE)}

\* a document is written to pvp_data
StoreInsert(doc) ==
    /\ Len(pvp_data) < MaxDocs
    /\ pvp_data' = <<doc>> \o pvp_data
    /\ UNCHANGED <<player_name_cache, players, kill_events, resolved, delayed>>
    /\ UNCHANGED <<scanVars, transportVars, runVars, botVars>>

\* the identifiers names are asked for
AskedIds == {IdA, IdShort}

LifecycleOf(player_id, name) ==
    Put(EmptyMap, player_id, [name |-> name, platform |-> "Unknown", state |-> "joined"])

SessionOf(player_id, name) ==
    Put(EmptyMap, player_id, [player_name |-> name, platform |-> "Unknown",
                              status |-> "online"])

KillEvent(killer_id, killer, victim_id, victim) ==
    [killer_id |-> killer_id, killer |-> killer, victim_id |-> victim_id,
     victim |-> victim]

\* A parser that has scanned one line of s1: player IdA is unknown, or known by
\* the name of a connect-confirm without intent, or by the name of its
\* connect-intent; a player with a similar identifier may be online; the other
\* collections may know IdA.
InitResolver ==
    /\ log = [s \in {"s1"} |-> <<>>]
    /\ vocab = VocabShared
    /\ file_states = Put(EmptyMap, "s1", [line_count |-> 1, cold_start_complete |-> TRUE])
    /\ persisted = NoDocument
    /\ player_lifecycle \in {EmptyMap, LifecycleOf(IdA, ConfirmedName(IdA)),
                             LifecycleOf(IdA, FinalName(<<"L", "i", "z">>))}
    /\ player_sessions \in {EmptyMap, SessionOf(IdB, <<"S", "a", "m">>)}
    /\ voice = [active |-> 0, queued |-> 0]
    /\ ctx = [t \in {1} |-> IdleFrame]
    /\ loadPending = FALSE
    /\ restarts = 0
    /\ covered = [s \in {"s1"} |-> [i \in 1..MaxLines |-> <<>>]]
    /\ lastCount = [s \in {"s1"} |-> 0]
    /\ disturbed = TRUE
    /\ TransportUnused({"s1"}, {1})
    /\ RunUnused({1})
    /\ player_name_cache = EmptyMap
    /\ pvp_data = <<>>
    /\ \/ players = EmptyMap /\ kill_events = <<>>
       \/ players = Put(EmptyMap, IdA, <<"K", "i", "m">>) /\ kill_events = <<>>
       \/ /\ players = EmptyMap
          /\ kill_events = <<KillEvent(IdA, <<"R", "o", "n">>, IdB, <<"B", "a", "r">>)>>
    /\ resolved = NoName
    /\ delayed = {}
    /\ BotUnused

NextResolver ==
    \/ \E player_id \in AskedIds, fault \in DbFaults : ResolvePlayerName(player_id, fault)
    \/ \E player_id \in AskedIds, fault \in {"none", "exact"} :
          DelayedNameResolution(player_id, fault)
    \/ \E doc \in StoreDocs : StoreInsert(doc)
    \/ ResetParserState

SpecResolver == InitResolver /\ [][NextResolver]_vars

-----------------------------------------------------------------------------
(* Properties of the name resolver *)

\* C23 (the resolver never fails): whatever identifier was asked for, and whether
\* the database answered, was missing or raised in one of its lookups, a call of
\* resolve_player_name has returned a name, and the name is not empty.
C23_ResolveNeverFails ==
    resolved.source # "none"
    => /\ resolved.player_id \in AskedIds
       /\ resolved.name # <<>>

\* a call during which the database was missing or raised has returned the name
\* of a similar online session
C23_Witness ==
    /\ resolved.faulty
    /\ resolved.source = "session"
    /\ resolved.name = <<"S", "a", "m">>
    /\ pvp_data # <<>>

\* the identifiers of the model
AllIds == {IdA, IdB, IdShort}

\* a name the parser makes up for an identifier
IsPlaceholder(name) ==
    \/ \E id \in AllIds :
           IdLen(id) >= 8 /\ name \in {TempName(id), ConfirmedName(id)}
    \/ name = <<"Unknown", "Player">>

\* an acceptable name: not empty or blank, not the unknown marker, not a
\* placeholder
IsProperName(name) ==
    /\ Strip(name) # <<>>
    /\ name # UnknownPlayer
    /\ ~StartsWithPlayer_(name)
    /\ ~IsPlaceholder(name)

\* the names of the documents with the indexes idxs, in the order of the documents
NamesAt(docs, idxs) ==
    LET pick[i \in 0..Len(docs)] ==
            IF i = 0 THEN <<>>
            ELSE IF i \in idxs THEN Append(pick[i - 1], docs[i].player_name)
            ELSE pick[i - 1]
    IN  pick[Len(docs)]

\* the names of the documents whose identifier starts, in any case, with the
\* first n characters of player_id
PrefixNames(docs, player_id, n) ==
    IF IdLen(player_id) < n THEN <<>>
    ELSE NamesAt(docs, {i \in 1..Len(docs) :
                           /\ IdLen(docs[i].player_id) >= n
                           /\ Upper(TakeChars(docs[i].player_id, n))
                                 = Upper(TakeChars(player_id, n))})

\* what the sources of the cascade offer for player_id, from the highest
\* priority to the lowest
Offers(player_id) ==
    (IF player_id \in DOMAIN player_name_cache
     THEN <<player_name_cache[player_id]>> ELSE <<>>)
    \o (IF player_id \in DOMAIN player_lifecycle
        THEN <<CleanName(player_lifecycle[player_id].name)>> ELSE <<>>)
    \o NamesAt(pvp_data, {i \in 1..Len(pvp_data) : pvp_data[i].player_id = player_id})
    \o PrefixNames(pvp_data, player_id, 12)
    \o PrefixNames(pvp_data, player_id, 8)
    \o PrefixNames(pvp_data, player_id, 6)
    \o PrefixNames(pvp_data, player_id, 4)
    \o NamesAt(pvp_data, {i \in 1..Len(pvp_data) :
                             /\ pvp_data[i].recent
                             /\ CommonPrefix(player_id, pvp_data[i].player_id) >= 8})
    \o (IF SimilarSessions(player_sessions, player_id) = {} THEN <<>>
        ELSE <<player_sessions[CHOOSE k \in SimilarSessions(player_sessions, player_id) :
                                  TRUE].player_name>>)

\* the first acceptable offer, or the placeholder
FirstProper(player_id) ==
    LET offers == Offers(player_id)
        proper == {i \in 1..Len(offers) : IsProperName(offers[i])}
    IN  IF proper # {} THEN offers[First(proper)]
        ELSE IF IdLen(player_id) >= 8 THEN TempName(player_id)
        ELSE <<"Unknown", "Player">>

\* C24 (strict priority order): a call of resolve_player_name during which the
\* database answers, for a player the players and kill_events collections do not
\* know, returns the first acceptable name its sources offer in the order cache,
\* lifecycle record, exact document, documents by prefix 12, 8, 6, 4, similar
\* recent documents, similar online session, and the placeholder if none does.
C24_StrictPriority ==
    [][(/\ resolved' # resolved
        /\ ~resolved'.faulty
        /\ players = EmptyMap /\ kill_events = <<>>)
       => resolved'.name = FirstProper(resolved'.player_id)]_vars

\* the store holds a document of player_id with an acceptable name
StoreHasProperName(player_id) ==
    \E i \in 1..Len(pvp_data) :
        /\ pvp_data[i].player_id = player_id
        /\ IsProperName(pvp_data[i].player_name)

\* C25 (placeholder promotion): a call of resolve_player_name for an identifier
\* whose cache entry is a placeholder, made while the store holds a document of
\* that identifier with a proper name and the database answers, returns a
\* proper name and replaces the cache entry by it.
C25_PlaceholderPromoted ==
    [][(/\ ResolvePlayerName(IdA, "none")
        /\ IdA \in DOMAIN player_name_cache
        /\ IsPlaceholder(player_name_cache[IdA])
        /\ StoreHasProperName(IdA))
       => /\ IsProperName(resolved'.name)
          /\ player_name_cache'[IdA] = resolved'.name]_vars

\* C26 (placeholder cache stability): two calls of resolve_player_name in a row
\* for the same identifier, neither of which finds backing data in the
\* lifecycle records, the collections or the sessions, return the same name.
C26_PlaceholderStable ==
    [][(/\ resolved.source # "none"
        /\ resolved'.player_id = resolved.player_id
        /\ ~resolved.backed
        /\ ~resolved'.backed)
       => resolved'.name = resolved.name]_vars

\* the second of two such calls has returned the cached placeholder
C26_Witness ==
    /\ resolved.source = "cache"
    /\ resolved.player_id = IdA
    /\ ~resolved.backed
    /\ resolved.name = TempName(IdA)
    /\ player_lifecycle = EmptyMap

\* C27 (no placeholder accepted): a name that resolve_player_name returns from
\* anything but its last resort is not a placeholder; in particular not the
\* name a connect-confirm without connect-intent left in the lifecycle record.
C27_NoPlaceholderAccepted ==
    resolved.source \notin {"none", "placeholder", "fallback"}
    => ~IsPlaceholder(resolved.name)

\* C30 (full reset): reset_parser_state leaves the cursor entries, the
\* lifecycle records, the session records and the name cache all empty.
C30_ResetClearsAll ==
    [][ResetParserState
       => /\ file_states' = EmptyMap
          /\ player_lifecycle' = EmptyMap
          /\ player_sessions' = EmptyMap
          /\ player_name_cache' = EmptyMap]_vars

-----------------------------------------------------------------------------
(* Properties of the error handlers of a scan *)

\* the lines of a slice the second loop announces a mission for
ReadyLines(slice) ==
    {i \in 1..Len(slice) :
        /\ Matches(slice[i], "mission") # {}
        /\ Search(slice[i], "mission").arg = <<"READY">>
        /\ MissionLevel(Search(slice[i], "mission").id) >= MinMissionLevel}

\* the type of the last event of a player in the sorted list
LastEventType(events, player_id) ==
    LET of == {i \in 1..Len(events) : events[i].player_id = player_id}
    IN  events[CHOOSE i \in of : \A j \in of : j <= i].type

\* the sorted player events of the slice of task t
SliceEvents(t) ==
    SortEvents(CollectEvents([lc |-> player_lifecycle, events |-> <<>>],
                             LinesToProcess(ctx[t].lines, ctx[t].cold_start,
                                            ctx[t].last_processed)).events)

\* C28 (anomaly isolation): a hot scan sets the cursor to the number of lines it
\* read; the connection embed of each of its player events fails to build and the
\* error is caught per event, and all the same every event of the slice has had
\* its effect on the sessions (a player whose last event is a join is online, one
\* whose last event is a disconnect is not), every READY mission line of the
\* slice has its embed from the second loop, the scan goes on to send or returns
\* normally, and the cursor stays as the scan set it.
C28_AnomalyIsolated ==
    [][\A t \in Tasks :
          /\ \A s \in Servers :
                (Begins(t, s) /\ ctx'[t].pc # "idle" /\ ~ctx'[t].cold_start)
                => LineCount(file_states', s) = Len(ctx'[t].lines)
          /\ (ProcessLines(t) /\ ~ctx[t].cold_start /\ SliceEvents(t) # <<>>)
             => LET f == ctx[t]
                    slice == LinesToProcess(f.lines, f.cold_start, f.last_processed)
                    events == SliceEvents(t)
                IN  /\ \A i \in 1..Len(events) :
                          LET p == events[i].player_id
                          IN  IF LastEventType(events, p) = "join"
                              THEN /\ p \in DOMAIN player_sessions'
                                   /\ player_sessions'[p].status = "online"
                              ELSE \/ p \notin DOMAIN player_sessions'
                                   \/ player_sessions'[p].status = "offline"
                    /\ Len(ctx'[t].embeds) = Cardinality(ReadyLines(slice))
                    /\ ctx'[t].pc = "send" \/ ctx'[t].outcome = "done"
                    /\ file_states' = file_states]_vars

\* a hot scan has returned normally that applied a join of Y, whose embed
\* raised, and announced a READY mission: Y is online, the scan published the
\* occupancy, and the mission embed is the one embed returned
C28_Witness ==
    \E t \in Tasks :
        /\ ctx[t].outcome = "done"
        /\ ~ctx[t].cold_start
        /\ ctx[t].voice_updates = 1
        /\ ctx[t].embeds = <<MissionEmbed("GA_Military_02_Mis1")>>
        /\ "Y" \in DOMAIN player_sessions
        /\ player_sessions["Y"].status = "online"

-----------------------------------------------------------------------------
(* run_log_parser: one cycle over the configured servers *)

\* guild_doc.get('servers', []) of the one guild
GuildServers == <<"s1", "s2">>

\* what run_log_parser finds before its loop: the database and the guild list, a
\* bot without db_manager, a find that raises, or no guild
RunFaults == {"none", "missing", "raises", "empty"}

\* a loop without handlers: the error of one server leaves run_log_parser
AfterServerMutant(f, outcome) ==
    IF outcome \in {"error", "raised"}
    THEN [f EXCEPT !.pc = "returned", !.raised = TRUE,
                   !.visited = Append(f.visited, [server |-> Head(f.todo),
                                                  outcome |-> outcome])]
    ELSE [f EXCEPT !.pc = "loop", !.todo = Tail(f.todo),
                   !.visited = Append(f.visited, [server |-> Head(f.todo),
                                                  outcome |-> outcome])]

\* the frame of run_log_parser once parse_server_logs is over for the server at
\* hand, however it ended: the loop goes to the next server
AfterServer(f, outcome) ==
    [f EXCEPT !.pc = "loop", !.todo = Tail(f.todo),
              !.visited = Append(f.visited, [server |-> Head(f.todo),
                                             outcome |-> outcome])]

\* run_log_parser is called: up to the loop over the servers
RunLogParser(t, fault) ==
    /\ run[t].pc \in {"idle", "returned", "skipped"}
    /\ ctx[t].pc = "idle"
    /\ run' = [run EXCEPT ![t] =
                  IF fault = "none" THEN [IdleRun EXCEPT !.pc = "loop", !.todo = GuildServers]
                  ELSE [IdleRun EXCEPT !.pc = "skipped"]]
    /\ UNCHANGED <<scanVars, transportVars, resolverVars, botVars>>

\* `await self.parse_server_logs(guild_id, server)` with a content that was fetched
RunScan(t) ==
    /\ run[t].pc = "loop"
    /\ run[t].todo # <<>>
    /\ LET s == Head(run[t].todo)
       IN  BeginWith(t, s, "server_logs", ~ColdStartComplete(file_states, s), log[s])
    /\ run' = [run EXCEPT ![t].pc = "scan"]
    /\ UNCHANGED <<transportVars, resolverVars, botVars>>

\* parse_server_logs is over before a scan: the configuration is invalid
\* ("invalid") or there is no content ("nocontent") and it returns, or the server
\* entry is no dict and its handler raises as well ("raised"), which the handler
\* in the loop of run_log_parser catches
ParseServerLogsFails(t, kind) ==
    /\ run[t].pc = "loop"
    /\ run[t].todo # <<>>
    /\ ctx[t].pc = "idle"
    /\ run' = [run EXCEPT ![t] = AfterServer(run[t], kind)]
    /\ UNCHANGED <<scanVars, transportVars, resolverVars, botVars>>

\* parse_log_content or send_embeds raises: the handler of parse_server_logs logs
\* the error and the call returns
ScanRaises(t) ==
    /\ run[t].pc = "scan"
    /\ ctx[t].pc \in {"process", "send"}
    /\ ctx' = [ctx EXCEPT ![t] = Returned(ctx[t], "error")]
    /\ disturbed' = TRUE
    /\ covered' = [s \in Servers |-> [i \in 1..MaxLines |-> <<>>]]
    /\ UNCHANGED extVars
    /\ UNCHANGED <<log, vocab, file_states, persisted, player_lifecycle, player_sessions,
                   voice, loadPending, restarts, lastCount>>

\* parse_server_logs has returned to the loop
ServerReturns(t) ==
    /\ run[t].pc = "scan"
    /\ ctx[t].pc = "idle"
    /\ run' = [run EXCEPT ![t] = AfterServer(run[t], ctx[t].outcome)]
    /\ UNCHANGED <<scanVars, transportVars, resolverVars, botVars>>

\* the loop is over: "Parser completed"
RunReturns(t) ==
    /\ run[t].pc = "loop"
    /\ run[t].todo = <<>>
    /\ run' = [run EXCEPT ![t].pc = "returned"]
    /\ UNCHANGED <<scanVars, transportVars, resolverVars, botVars>>

NextRun ==
    \/ \E s \in Servers, w \in vocab \cup {NL} : WriteLog(s, w)
    \/ \E t \in Tasks, fault \in RunFaults : RunLogParser(t, fault)
    \/ \E t \in Tasks : RunScan(t)
    \/ \E t \in Tasks, kind \in {"nocontent", "raised"} :
          ParseServerLogsFails(t, kind)
    \/ \E t \in Tasks : SaveState(t)
    \/ \E t \in Tasks : SaveStateFails(t)
    \/ \E t \in Tasks : ProcessLines(t)
    \/ \E t \in Tasks : SendEmbeds(t)
    \/ \E t \in Tasks : ScanRaises(t)
    \/ \E t \in Tasks : ServerReturns(t)
    \/ \E t \in Tasks : RunReturns(t)

\* mission lines only
VocabWorld == {MissionWord("GA_Military_02_Mis1", "READY")}

\* one guild with two servers, whose logs hold mission lines
InitRun == Start({"s1", "s2"}, {1}, {VocabWorld})

SpecRun == InitRun /\ [][NextRun]_vars

\* the servers of a list of visits
VisitedServers(visited) == [i \in 1..Len(visited) |-> visited[i].server]

-----------------------------------------------------------------------------
(* Properties of the cursor store across restarts *)

\* C31 (the cursor store is in effect before scanning resumes): a scan entered
\* through parse_server_logs for a source the store holds a cursor of finds the
\* source hot and a cursor at least the stored one; and the load started at
\* construction never lowers the cursor of a source.
C31_StoreInEffect ==
    [][/\ \A t \in Tasks, s \in Servers :
             (/\ ParseServerLogs(t, s)
              /\ persisted.exists
              /\ s \in DOMAIN persisted.fs)
             => /\ ColdStartComplete(file_states, s)
                /\ LineCount(file_states, s) >= persisted.fs[s].line_count
       /\ LoadState
             => \A s \in DOMAIN file_states :
                   LineCount(file_states', s) >= LineCount(file_states, s)]_vars

-----------------------------------------------------------------------------
(* Properties of the second pass *)

\* missions of the tiers 4, 3, 2 and 1 becoming READY
VocabTiers == {MissionWord("GA_Airport_mis_01_SFPSACMission", "READY"),
               MissionWord("GA_Ind_01_m1", "READY"),
               MissionWord("GA_Sawmill_01_Mis1", "READY"),
               MissionWord("GA_Beregovoy_Mis1", "READY")}

\* a mission of tier 5 in two states, a vehicle spawned and deleted, a player
VocabStates == {MissionWord("GA_Military_02_Mis1", "READY"),
                MissionWord("GA_Military_02_Mis1", "IN_PROGRESS"),
                VehicleWord("vehicle_spawn", "BP_SUV"),
                VehicleWord("vehicle_delete", "BP_SUV"),
                RegWord("X")}

InitWorld == Start({"s1"}, {1}, {VocabTiers, VocabStates})

\* scans and deliveries, with a database that answers and a process that stays up
NextWorld ==
    \/ NextQuiet
    \/ \E t \in Tasks : SendEmbeds(t)

SpecWorld == InitWorld /\ [][NextWorld]_vars

\* the kinds of line the second pass looks for
WorldKinds == {"mission", "vehicle_spawn", "vehicle_delete"}

\* the slice with its world lines emptied
WithoutWorld(slice) ==
    [i \in 1..Len(slice) |->
        IF \E k \in WorldKinds : Matches(slice[i], k) # {} THEN <<>> ELSE slice[i]]

\* one mission embed per READY line of tier 3 or more, in line order
RECURSIVE Announcements(_)
Announcements(slice) ==
    IF slice = <<>> THEN <<>>
    ELSE LET rest == Announcements(SubSeq(slice, 1, Len(slice) - 1))
         IN  IF Len(slice) \in ReadyLines(slice)
             THEN Append(rest, MissionEmbed(Search(slice[Len(slice)], "mission").id))
             ELSE rest

-----------------------------------------------------------------------------
(* Properties of the two tables together *)

\* the players with a session record of status online
Online(sess) == {p \in DOMAIN sess : sess[p].status = "online"}

\* the players with a lifecycle record in the given state
InState(lc, state) == {p \in DOMAIN lc : lc[p].state = state}

\* C33 (session/lifecycle consistency): when a scan has processed its slice, the
\* players with an online session record are the players whose lifecycle record
\* is joined; so no player is both online and queued.
C33_TablesConsistent ==
    [][\A t \in Tasks :
          ProcessLines(t)
          => /\ Online(player_sessions') = InState(player_lifecycle', "joined")
             /\ Online(player_sessions') \cap InState(player_lifecycle', "queued") = {}]_vars

-----------------------------------------------------------------------------
(* Properties of overlapping scans *)

\* the line indexes of the slice of the scan task t is in
SliceIndexes(t) ==
    IF ctx[t].pc = "idle" THEN {}
    ELSE SliceStart(ctx[t].cold_start, ctx[t].last_processed)..Len(ctx[t].lines)

\* C34 (interleaved scans have disjoint slices): when two tasks are inside a
\* scan of the same source at the same time, no line index is in the slices of
\* both.
C34_DisjointSlices ==
    \A t1, t2 \in Tasks :
        (/\ t1 # t2
         /\ ctx[t1].pc # "idle" /\ ctx[t2].pc # "idle"
         /\ ctx[t1].server = ctx[t2].server)
        => SliceIndexes(t1) \cap SliceIndexes(t2) = {}

\* two tasks scanning one server whose log tells of one player
InitOverlap == Start({"s1"}, {"initial", "scheduled"}, {VocabShared})

SpecOverlap == InitOverlap /\ [][NextQuiet]_vars

\* the lifecycle and session records a scan of `slice` makes of lc and sess
Scanned(lc, sess, slice, cold_start) ==
    LET first == CollectEvents([lc |-> lc, events |-> <<>>], slice)
        st == ProcessEvents([sess |-> sess, embeds |-> <<>>, voice |-> FALSE],
                            SortEvents(first.events), first.lc, cold_start)
    IN  [lc |-> first.lc, sess |-> st.sess]

\* the slice of the scan task t is in
SliceInProgress(t) ==
    LinesToProcess(ctx[t].lines, ctx[t].cold_start, ctx[t].last_processed)

\* task t2 is inside a scan of the source of t, has not processed its slice yet,
\* and its slice ends before the slice of t begins
EarlierPending(t2, t) ==
    /\ t2 # t
    /\ ctx[t2].pc \in {"save", "process"}
    /\ ctx[t2].server = ctx[t].server
    /\ SliceIndexes(t2) # {}
    /\ \A i \in SliceIndexes(t2), j \in SliceIndexes(t) : i < j

\* C35 (overlapping scans are equivalent to sequential ones): when a scan
\* processes its slice while a scan of the same source with an earlier slice has
\* yet to process its own, the records the earlier scan will make of the result
\* are those the two slices make when processed in slice order.
C35_SliceOrderState ==
    [][\A t, t2 \in Tasks :
          (ProcessLines(t) /\ EarlierPending(t2, t))
          => LET early == Scanned(player_lifecycle, player_sessions,
                                  SliceInProgress(t2), ctx[t2].cold_start)
                 inOrder == Scanned(early.lc, early.sess, SliceInProgress(t),
                                    ctx[t].cold_start)
                 actual == Scanned(player_lifecycle', player_sessions',
                                   SliceInProgress(t2), ctx[t2].cold_start)
             IN  actual = inOrder]_vars

-----------------------------------------------------------------------------
(* Truncation and rotation of the log *)

\* the game server starts a new log file: the text of the source is empty again
RotateLog(s) ==
    /\ log[s] # <<>>
    /\ log' = [log EXCEPT ![s] = <<>>]
    /\ disturbed' = TRUE
    /\ covered' = [r \in Servers |-> [i \in 1..MaxLines |-> <<>>]]
    /\ UNCHANGED extVars
    /\ UNCHANGED <<vocab, file_states, persisted, player_lifecycle, player_sessions,
                   voice, ctx, loadPending, restarts, lastCount>>

InitRotate == Start({"s1"}, {1}, {VocabShared})

NextRotate ==
    \/ NextQuiet
    \/ \E s \in Servers : RotateLog(s)

SpecRotate == InitRotate /\ [][NextRotate]_vars

\* C36 (truncation/rotation): a scan of a hot source with cursor N whose text has
\* no more than N lines returns at once and leaves the cursor and the records as
\* they were; a scan that finds more than N lines sets the cursor to their number
\* and applies lines[N:] only, so the lines before N have no effect whatever they
\* hold now.
C36_RotationSkipsOldIndexes ==
    [][\A t \in Tasks :
          /\ \A s \in Servers :
                (Begins(t, s) /\ ColdStartComplete(file_states, s))
                => LET N == LineCount(file_states, s)
                   IN  IF Len(LinesOf(s)) <= N
                       THEN /\ ctx'[t].pc = "idle"
                            /\ ctx'[t].embeds = <<>>
                            /\ UNCHANGED <<file_states, persisted, player_lifecycle,
                                           player_sessions>>
                       ELSE /\ ctx'[t].pc = "save"
                            /\ ~ctx'[t].cold_start
                            /\ ctx'[t].last_processed = N
                            /\ ctx'[t].lines = LinesOf(s)
                            /\ LineCount(file_states', s) = Len(LinesOf(s))
          /\ (ProcessLines(t) /\ ~ctx[t].cold_start /\ ctx[t].last_processed > 0)
             => LET f == ctx[t]
                    after == Scanned(player_lifecycle, player_sessions,
                                     SubSeq(f.lines, f.last_processed + 1, Len(f.lines)),
                                     FALSE)
                IN  /\ player_lifecycle' = after.lc
                    /\ player_sessions' = after.sess]_vars

\* after a rotation the new text begins with a registration of X at an index the
\* cursor had passed: the scans are over, the cursor is at the end of the text,
\* and X was never registered
C36_Witness ==
    /\ \A t \in Tasks : ctx[t].pc = "idle" /\ ctx[t].outcome = "done" /\ ~ctx[t].cold_start
    /\ LinesOf("s1") = << <<RegWord("X")>>, <<DiscWord("X")>> >>
    /\ LineCount(file_states, "s1") = 2
    /\ player_lifecycle = EmptyMap
    /\ player_sessions = EmptyMap

-----------------------------------------------------------------------------
(* Properties of the queued state *)

\* A player who queues, registers and disconnects, and another player who registers.
VocabQueued == {QueueWord("X", <<"F">>), RegWord("X"), DiscWord("X"), RegWord("Y")}

InitQueued == Start({"s1"}, {1}, {VocabQueued})

SpecQueued == InitQueued /\ [][NextQuiet]_vars

\* the slice holds a line whose player_registered match is p
ConfirmsIn(slice, p) ==
    \E n \in 1..Len(slice) :
        /\ Matches(slice[n], "reg") # {}
        /\ Search(slice[n], "reg").id = p

\* C37 (queued is left only through a connect-confirm): a record that is in state
\* queued before a step is in state queued after it, unless the step is the
\* processing of a slice that holds a connect-confirm for the same identifier;
\* and the queued count of a scan is never below the number of the players who
\* were queued before it and have no connect-confirm in its slice.
C37_QueuedUntilConfirmed ==
    [][/\ \A p \in InState(player_lifecycle, "queued") :
              \/ p \in InState(player_lifecycle', "queued")
              \/ \E t \in Tasks : ProcessLines(t) /\ ConfirmsIn(SliceOf(t), p)
       /\ \A t \in Tasks :
              ProcessLines(t) =>
                  QueuedPlayers(player_lifecycle') >=
                      Cardinality({p \in InState(player_lifecycle, "queued") :
                                      ~ConfirmsIn(SliceOf(t), p)})]_vars

\* X queued, then disconnected while Y registered: X is still queued
C37_Witness ==
    /\ \A t \in Tasks : ctx[t].pc = "idle" /\ ctx[t].outcome = "done" /\ ~ctx[t].cold_start
    /\ LinesOf("s1") = << <<QueueWord("X", <<"F">>)>>, <<DiscWord("X")>> >>
    /\ LineCount(file_states, "s1") = 2
    /\ StateOf(player_lifecycle, "X") = "queued"

-----------------------------------------------------------------------------
(* on_ready *)

\* the cogs of load_cogs
Cogs == {"core", "parsers"}

\* on_ready events in one run
MaxReady == 3

\* the loop of load_cogs, which nothing interrupts: self.load_extension(cog) for
\* every cog. py-cord refuses an extension that is loaded already
\* (ExtensionAlreadyLoaded); the cogs of `broken` raise while they are imported.
LoadExtensions(extensions, broken) ==
    [extensions |-> extensions \cup (Cogs \ broken),
     failed_cogs |-> (Cogs \cap extensions) \cup broken]

\* what load_cogs returns after its sleep: no cog failed and commands are registered
CogsSuccess(failed_cogs, extensions) == failed_cogs = {} /\ extensions # {}

\* on_ready fires: return at once when the setup is complete, or else start to
\* load the cogs, up to the sleep of load_cogs
OnReady(h, broken) ==
    /\ ready[h].pc = "idle"
    /\ bot.on_ready < MaxReady
    /\ IF bot.setup_complete
       THEN /\ bot' = [bot EXCEPT !.on_ready = @ + 1]
            /\ ready' = ready
       ELSE LET l == LoadExtensions(bot.extensions, broken)
            IN  /\ bot' = [bot EXCEPT !.on_ready = @ + 1, !.load_cogs = @ + 1,
                                      !.extensions = l.extensions]
                /\ ready' = [ready EXCEPT ![h] = [pc |-> "load_cogs",
                                                  failed_cogs |-> l.failed_cogs]]
    /\ UNCHANGED <<scanVars, transportVars, resolverVars, runVars, sync, disk, clock>>

\* load_cogs returns: on_ready gives up, or goes on to await register_commands_safely
LoadCogsReturns(h) ==
    /\ ready[h].pc = "load_cogs"
    /\ ready' = [ready EXCEPT ![h] =
                    IF CogsSuccess(ready[h].failed_cogs, bot.extensions)
                    THEN [pc |-> "register_commands", failed_cogs |-> {}]
                    ELSE IdleReady]
    /\ UNCHANGED <<scanVars, transportVars, resolverVars, runVars, bot, sync, disk, clock>>

\* register_commands_safely returns or raises: setup_database constructs the
\* database manager and awaits the ping
SetupDatabase(h) ==
    /\ ready[h].pc = "register_commands"
    /\ bot' = [bot EXCEPT !.setup_database = @ + 1]
    /\ ready' = [ready EXCEPT ![h].pc = "setup_database"]
    /\ UNCHANGED <<scanVars, transportVars, resolverVars, runVars, sync, disk, clock>>

\* self.scheduler.start(): APScheduler refuses to start a scheduler that runs
SchedulerStarts(b) == ~b.scheduler_running

\* The ping and the indexes are over. When they raised, setup_database returns
\* False and on_ready gives up. Otherwise the parsers are constructed, the
\* scheduler is started, the job of the unified log parser replaces the one of
\* that id, and the setup is complete.
SetupDatabaseReturns(h, connected) ==
    /\ ready[h].pc = "setup_database"
    /\ ready' = [ready EXCEPT ![h] = IdleReady]
    /\ bot' = IF ~connected THEN bot
              ELSE LET b == [bot EXCEPT !.parsers = @ + 1, !.unified_log_parser = TRUE]
                   IN  IF ~SchedulerStarts(b) THEN b
                       ELSE [b EXCEPT !.scheduler_running = TRUE,
                                      !.scheduler_starts = @ + 1,
                                      !.jobs = {"unified_log_parser"},
                                      !.add_job = @ + 1,
                                      !.setup_complete = TRUE]
    /\ UNCHANGED <<scanVars, transportVars, resolverVars, runVars, sync, disk, clock>>

InitReady == Start({"s1"}, {1}, {VocabShared})

NextReady ==
    \/ \E h \in Handlers, broken \in SUBSET Cogs : OnReady(h, broken)
    \/ \E h \in Handlers : LoadCogsReturns(h)
    \/ \E h \in Handlers : SetupDatabase(h)
    \/ \E h \in Handlers, connected \in BOOLEAN : SetupDatabaseReturns(h, connected)

SpecReady == InitReady /\ [][NextReady]_vars

\* C38 (the setup runs only once): however often on_ready fires, the cogs are
\* loaded, the database manager and the parsers are constructed, the scheduler is
\* started and the job of the unified log parser is scheduled at most once each.
C38_SetupOnce ==
    /\ bot.load_cogs <= 1
    /\ bot.setup_database <= 1
    /\ bot.parsers <= 1
    /\ bot.scheduler_starts <= 1
    /\ bot.add_job <= 1

-----------------------------------------------------------------------------
(* register_commands_safely *)

\* cooldown_secs = 1800, in the units of the clock
cooldown_secs == 2

\* the clock stops here
MaxClock == 4

\* calculate_command_fingerprint of the commands of two builds
Fingerprints == {"h1", "h2"}

\* self.guilds
Guilds == <<"g1", "g2">>

\* how a sync_commands call ends: it returns, or it raises with or without
\* "429" or "rate limit" in its message
SyncOutcomes == {"ok", "429", "error"}

\* "429" in error_msg or "rate limit" in error_msg
IsRateLimit(outcome) == outcome = "429"

\* the cooldown file exists and time.time() < until
OnCooldown(d, now) == d.cooldown # 0 /\ now < d.cooldown

\* with open(cooldown_file, 'w'): time.time() + cooldown_secs
WriteCooldown(d, now) == [d EXCEPT !.cooldown = now + cooldown_secs]

\* the call returns
SyncReturned(f, outcome) == [f EXCEPT !.pc = "idle", !.outcome = outcome]

\* the end of the per-guild fallback: the fingerprint is saved when a guild was synced
FallbackOver(f, d) ==
    [sync |-> SyncReturned(f, IF f.success_count > 0 THEN "guilds" ELSE "failed"),
     disk |-> IF f.success_count > 0 THEN [d EXCEPT !.hash = f.fingerprint] ELSE d]

\* the loop `for guild in self.guilds` reaches its next sync_commands call, or its end
NextGuild(f, d) ==
    IF f.guild < Len(Guilds)
    THEN [sync |-> [f EXCEPT !.pc = "guild", !.guild = @ + 1, !.calls = @ + 1], disk |-> d]
    ELSE FallbackOver(f, d)

\* register_commands_safely up to its first await: the cooldown check, the
\* comparison of the fingerprints, and the start of the global sync
RegisterCommandsSafely(current_fingerprint, force_sync) ==
    /\ sync.pc = "idle"
    /\ LET fresh == [IdleSync EXCEPT !.fingerprint = current_fingerprint]
           d == IF disk.cooldown # 0 THEN [disk EXCEPT !.cooldown = 0] ELSE disk
       IN  IF OnCooldown(disk, clock)
           THEN /\ sync' = SyncReturned(fresh, "cooldown")
                /\ disk' = disk
           ELSE IF current_fingerprint = d.hash /\ ~force_sync
           THEN /\ sync' = SyncReturned(fresh, "unchanged")
                /\ disk' = d
           ELSE /\ sync' = [fresh EXCEPT !.pc = "global", !.calls = 1]
                /\ disk' = d
    /\ UNCHANGED <<scanVars, transportVars, resolverVars, runVars, bot, ready, clock>>

\* the global sync_commands call is over
GlobalSyncReturns(outcome) ==
    /\ sync.pc = "global"
    /\ IF outcome = "ok"
       THEN /\ sync' = SyncReturned(sync, "global")
            /\ disk' = [disk EXCEPT !.hash = sync.fingerprint]
       ELSE LET f == [sync EXCEPT !.limited = IsRateLimit(outcome)]
                d == IF IsRateLimit(outcome) THEN WriteCooldown(disk, clock) ELSE disk
                n == NextGuild(f, d)
            IN  sync' = n.sync /\ disk' = n.disk
    /\ UNCHANGED <<scanVars, transportVars, resolverVars, runVars, bot, ready, clock>>

\* the sync_commands call for one guild is over
GuildSyncReturns(outcome) ==
    /\ sync.pc = "guild"
    /\ LET n == CASE outcome = "ok" ->
                       NextGuild([sync EXCEPT !.success_count = @ + 1], disk)
                  [] IsRateLimit(outcome) ->
                       FallbackOver([sync EXCEPT !.limited = TRUE],
                                    WriteCooldown(disk, clock))
                  [] OTHER -> NextGuild(sync, disk)
       IN  sync' = n.sync /\ disk' = n.disk
    /\ UNCHANGED <<scanVars, transportVars, resolverVars, runVars, bot, ready, clock>>

\* time passes
Tick ==
    /\ clock < MaxClock
    /\ clock' = clock + 1
    /\ UNCHANGED <<scanVars, transportVars, resolverVars, runVars, bot, ready, sync, disk>>

InitSync == Start({"s1"}, {1}, {VocabShared})

NextSync ==
    \/ \E h \in Fingerprints, force_sync \in BOOLEAN : RegisterCommandsSafely(h, force_sync)
    \/ \E outcome \in SyncOutcomes : GlobalSyncReturns(outcome)
    \/ \E outcome \in SyncOutcomes : GuildSyncReturns(outcome)
    \/ Tick

SpecSync == InitSync /\ [][NextSync]_vars

\* the step starts a sync_commands call
SyncCall ==
    /\ sync'.pc # "idle"
    /\ sync.pc = "idle" \/ sync'.calls > sync.calls

\* C39 (rate-limit handling of the command sync): no sync call is made while a
\* recorded cooldown has not expired; an invocation whose fingerprint equals the
\* stored one, without the force flag, makes no sync call; and once a sync call
\* of an invocation was rate limited, a cooldown is recorded and the invocation
\* makes no further sync call.
C39_SyncRateLimit ==
    [][/\ SyncCall => ~OnCooldown(disk', clock')
       /\ \A h \in Fingerprints :
              (RegisterCommandsSafely(h, FALSE) /\ h = disk.hash) => ~SyncCall
       /\ (sync'.limited /\ ~sync.limited) => OnCooldown(disk', clock')
       /\ sync'.limited => ~SyncCall]_vars

====
